---- MODULE Spec2Model ----
(***************************************************************************)
(* A model of msd-tool's daemon (src/msd-tool/src/daemon.rs) and of the    *)
(* configfs adapter (usb.rs) and process stopper (util.rs) it drives.      *)
(*                                                                         *)
(* The kernel is the environment.  Every system call the daemon makes has  *)
(* an outcome `io` drawn by the action that makes it: "ok", or an          *)
(* unexpected error.  What configfs does on "ok" is what the daemon's own  *)
(* comments say of it: a new mass storage function is born with lun.0,     *)
(* lun.0 cannot be removed, a function cannot be removed while it has      *)
(* extra LUNs or is linked into the config, and a LUN attribute reads back *)
(* as what was written, newline-terminated.                                *)
(***************************************************************************)
EXTENDS Integers, Sequences, FiniteSets, TLC

(***************************************************************************)
(* Bounds of the model.                                                    *)
(***************************************************************************)
\* Longest device list of a SetMassStorage request of specification Spec.
MaxDevices == 2
\* Most LUNs a function left behind by an earlier run of the service holds.
MaxInitLuns == 3
\* Number of connections (worker threads) of specification SpecConc.
MaxConns == 2
\* Number of process ids the process table of SpecHal holds.
MaxPids == 2

(***************************************************************************)
(* daemon.rs constants.                                                    *)
(***************************************************************************)
FUNCTION_NAME == "mass_storage.msd"
CONFIG_NAME == "msd"
GADGET_HAL_PROCESS == "android.hardware.usb.gadget-service"

\* The value of the sys.usb.controller property on a device that has one.
ControllerId == "a600000.dwc3"
\* Another function that init scripts link into the config (adb).
OtherLink == "f1"
OtherFunction == "ffs.adb"

(***************************************************************************)
(* Bytes.  A configfs file holds a sequence of tokens; "\n" is the newline *)
(* byte and a path is the sequence of its separators and components.       *)
(***************************************************************************)
NL == "\n"

Range(s) == {s[i] : i \in DOMAIN s}

RECURSIVE SeqsUpTo(_, _)
\* All sequences over S of length at most n.
SeqsUpTo(S, n) ==
    IF n = 0 THEN {<<>>}
    ELSE LET shorter == SeqsUpTo(S, n - 1)
         IN  shorter \cup {Append(s, x) : s \in {t \in shorter : Len(t) = n - 1}, x \in S}

RECURSIVE Ascending(_)
\* The elements of a finite set of integers, smallest first.
Ascending(S) ==
    IF S = {} THEN <<>>
    ELSE LET m == CHOOSE x \in S : \A y \in S : x <= y
         IN  <<m>> \o Ascending(S \ {m})

(***************************************************************************)
(* Open files: "a.iso" and "b.img" are regular files, "dir" a directory.   *)
(* St_mode is what fstat reports for a descriptor of the file and PathOf   *)
(* the path the kernel reports for it.                                     *)
(***************************************************************************)
St_mode(file) == IF file = "dir" THEN "Directory" ELSE "RegularFile"

PathOf(file) == IF file = "dir" THEN <<"/", "data">> ELSE <<"/", "data", "/", file>>

RECURSIVE Perms(_)
\* All sequences that list each element of the finite set S once.
Perms(S) ==
    IF S = {} THEN {<<>>}
    ELSE UNION {{<<x>> \o p : p \in Perms(S \ {x})} : x \in S}

(***************************************************************************)
(* The gadget tree under GADGET_ROOT:                                      *)
(*   UDC       the bound controller, "" when unbound;                      *)
(*   configs   the symbolic links of configs/b.1: link name -> the         *)
(*             function name the link points at;                           *)
(*   function  whether functions/mass_storage.msd exists;                  *)
(*   luns      its lun.<N> directories: N -> what the kernel holds for     *)
(*             the attributes cdrom, ro (booleans) and file (the path of   *)
(*             the backing file, <<>> when none is attached).              *)
(***************************************************************************)
Unbound == ""

NoFile == <<>>

\* lun.0 of a function the kernel has just created.
DefaultLun == [cdrom |-> FALSE, ro |-> FALSE, file |-> NoFile]

NoLuns == [n \in {} |-> DefaultLun]

\* The tree init scripts and the gadget HAL leave: adb linked, bound.
CleanGadget ==
    [UDC |-> ControllerId,
     configs |-> [l \in {OtherLink} |-> OtherFunction],
     function |-> FALSE,
     luns |-> NoLuns]

\* The outcome of a system call: done, or an unexpected I/O error.
IoOutcomes == {"ok", "err"}

\* The outcome of a write that binds UDC, which may also be ENODEV.
UdcOutcomes == {"ok", "ENODEV", "err"}

\* A function without m: its domain shrinks by one.
Without(f, m) == [n \in DOMAIN f \ {m} |-> f[n]]

\* A function extended or overwritten at m.
With(f, m, v) == [n \in DOMAIN f \cup {m} |-> IF n = m THEN v ELSE f[n]]

(***************************************************************************)
(* usb.rs: UsbGadget.  Each operation takes the tree and the outcome of    *)
(* its system call and yields the tree after it and what it returns:       *)
(* "true"/"false" for Ok(bool), "ok" for Ok(()), "err" for Err.            *)
(***************************************************************************)
\* The bytes set_controller writes: the id, if any, then a newline.
UdcBytes(id) == IF id = Unbound THEN <<NL>> ELSE <<id, NL>>

\* What the kernel binds on a write to UDC: the bytes before the newline.
UdcStore(bytes) == IF Len(bytes) = 1 THEN Unbound ELSE bytes[1]

\* The kernel's handling of a write to UDC: an empty name unbinds, and that is
\* ENODEV when nothing is bound; a name binds, and that is ENODEV when the
\* controller is not there.
UdcWrite(g, bytes, io) ==
    IF io = "err" THEN [g |-> g, errno |-> "EIO"]
    ELSE IF UdcStore(bytes) = Unbound
         THEN IF g.UDC = Unbound THEN [g |-> g, errno |-> "ENODEV"]
              ELSE [g |-> [g EXCEPT !.UDC = Unbound], errno |-> "ok"]
    ELSE IF io = "ENODEV" THEN [g |-> g, errno |-> "ENODEV"]
    ELSE [g |-> [g EXCEPT !.UDC = UdcStore(bytes)], errno |-> "ok"]

\* A set_controller that tolerates ENODEV when binding too.
set_controller_lenient(g, id, io) ==
    LET w == UdcWrite(g, UdcBytes(id), io)
    IN  IF w.errno = "ok" THEN [g |-> w.g, ret |-> "ok"]
        ELSE IF w.errno # "ENODEV" THEN [g |-> g, ret |-> "err"]
        ELSE [g |-> g, ret |-> "ok"]

\* A set_controller that tolerates no error.
set_controller_strict(g, id, io) ==
    LET w == UdcWrite(g, UdcBytes(id), io)
    IN  IF w.errno = "ok" THEN [g |-> w.g, ret |-> "ok"] ELSE [g |-> g, ret |-> "err"]

\* set_controller: ENODEV is tolerated only when clearing.
set_controller(g, id, io) ==
    LET w == UdcWrite(g, UdcBytes(id), io)
    IN  IF w.errno = "ok" THEN [g |-> w.g, ret |-> "ok"]
        ELSE IF id # Unbound \/ w.errno # "ENODEV" THEN [g |-> g, ret |-> "err"]
        ELSE [g |-> g, ret |-> "ok"]

\* The link name -> target basename map of the config.
configs(g) == g.configs

\* A create_config that takes a link that exists for the link asked for.
create_config_any_target(g, name, function, io) ==
    IF io = "err" THEN [g |-> g, ret |-> "err"]
    ELSE IF name \notin DOMAIN g.configs
         THEN [g |-> [g EXCEPT !.configs = With(g.configs, name, function)], ret |-> "true"]
    ELSE [g |-> g, ret |-> "false"]

\* create_config: symlink, and on AlreadyExists the comparison of the link's
\* target with the function.
create_config(g, name, function, io) ==
    IF io = "err" THEN [g |-> g, ret |-> "err"]
    ELSE IF name \notin DOMAIN g.configs
         THEN [g |-> [g EXCEPT !.configs = With(g.configs, name, function)], ret |-> "true"]
    ELSE IF g.configs[name] = function THEN [g |-> g, ret |-> "false"]
    ELSE [g |-> g, ret |-> "err"]

delete_config(g, name, io) ==
    IF io = "err" THEN [g |-> g, ret |-> "err"]
    ELSE IF name \in DOMAIN g.configs
         THEN [g |-> [g EXCEPT !.configs = Without(g.configs, name)], ret |-> "true"]
    ELSE [g |-> g, ret |-> "false"]

\* create_function: create_dir, then the chown of the new directory, which
\* fails when io is "chown".
create_function(g, io) ==
    IF io = "err" THEN [g |-> g, ret |-> "err"]
    ELSE IF ~g.function
         THEN [g |-> [g EXCEPT !.function = TRUE, !.luns = With(NoLuns, 0, DefaultLun)],
               ret |-> IF io = "chown" THEN "err" ELSE "true"]
    ELSE [g |-> g, ret |-> "false"]

\* Whether a link of the config points at the mass storage function.
Linked(g) == \E l \in DOMAIN g.configs : g.configs[l] = FUNCTION_NAME

\* A delete_function that takes every error of rmdir for NotFound.
delete_function_swallow(g, io) ==
    IF io = "err" \/ ~g.function THEN [g |-> g, ret |-> "false"]
    ELSE IF DOMAIN g.luns \ {0} # {} \/ Linked(g) THEN [g |-> g, ret |-> "false"]
    ELSE [g |-> [g EXCEPT !.function = FALSE, !.luns = NoLuns], ret |-> "true"]

\* A delete_function that removes nothing.
delete_function_noop(g, io) ==
    IF io = "err" THEN [g |-> g, ret |-> "err"] ELSE [g |-> g, ret |-> "false"]

delete_function(g, io) ==
    IF io = "err" THEN [g |-> g, ret |-> "err"]
    ELSE IF ~g.function THEN [g |-> g, ret |-> "false"]
    ELSE IF DOMAIN g.luns \ {0} # {} \/ Linked(g) THEN [g |-> g, ret |-> "err"]
    ELSE [g |-> [g EXCEPT !.function = FALSE, !.luns = NoLuns], ret |-> "true"]

\* Some(handle) is "some", None is "none".
open_mass_storage_function(g, io) ==
    IF io = "err" THEN "err"
    ELSE IF g.function THEN "some" ELSE "none"

(***************************************************************************)
(* usb.rs: MassStorageFunction.                                            *)
(***************************************************************************)
\* The names in the function's directory: its LUNs and its own attribute.
DirEntries(g) == {<<"lun.", n>> : n \in DOMAIN g.luns} \cup {<<"stall">>}

\* luns() of a directory listing: the entries lun.<u8>, in listing order.
luns(listing) ==
    LET isLun(e) == Len(e) = 2 /\ e[1] = "lun." /\ e[2] \in 0..255
        kept == SelectSeq(listing, isLun)
    IN  [k \in DOMAIN kept |-> kept[k][2]]

\* A create_lun that reports every LUN as newly created.
create_lun_always_new(g, lun, io) ==
    IF io = "err" \/ ~g.function THEN [g |-> g, ret |-> "err"]
    ELSE IF lun \notin DOMAIN g.luns
         THEN [g |-> [g EXCEPT !.luns = With(g.luns, lun, DefaultLun)], ret |-> "true"]
    ELSE [g |-> g, ret |-> "true"]

\* create_lun: create_dir, then the chown of the new directory, which fails
\* when io is "chown".
create_lun(g, lun, io) ==
    IF io = "err" \/ ~g.function THEN [g |-> g, ret |-> "err"]
    ELSE IF lun \notin DOMAIN g.luns
         THEN [g |-> [g EXCEPT !.luns = With(g.luns, lun, DefaultLun)],
               ret |-> IF io = "chown" THEN "err" ELSE "true"]
    ELSE [g |-> g, ret |-> "false"]

delete_lun(g, lun, io) ==
    IF io = "err" \/ ~g.function THEN [g |-> g, ret |-> "err"]
    ELSE IF lun \notin DOMAIN g.luns THEN [g |-> g, ret |-> "false"]
    ELSE IF lun = 0 THEN [g |-> g, ret |-> "err"]
    ELSE [g |-> [g EXCEPT !.luns = Without(g.luns, lun)], ret |-> "true"]

(***************************************************************************)
(* LUN attributes.  The service writes bytes; the kernel parses them,      *)
(* keeps the value, and shows it back newline-terminated.                  *)
(***************************************************************************)
\* if b { b"1\n" } else { b"0\n" }
BoolBytes(b) == <<IF b THEN "1" ELSE "0", NL>>

\* format!("/proc/{}/fd/{}\n", getpid(), fd)
ProcFdBytes(fd) == <<"/", "proc", "/", "self", "/", "fd", "/", fd, NL>>

\* The kernel's reading of a boolean attribute write.
KernelBool(bytes) == bytes[1] = "1"

\* The descriptor a /proc/self/fd/<N> path names.
KernelFdOf(bytes) == bytes[Len(bytes) - 1]

\* What the kernel shows for an attribute.
ShowBool(b) == <<IF b THEN "1" ELSE "0", NL>>

ShowFile(path) == path \o <<NL>>

\* One write_configfs_file to lun.<lun>/<attr>.  `open` is the table of the
\* service's open descriptors: the kernel resolves the path at write time.
write_configfs_file(g, lun, attr, bytes, io, open) ==
    IF io = "err" \/ ~g.function \/ lun \notin DOMAIN g.luns THEN [g |-> g, ret |-> "err"]
    ELSE IF attr = "cdrom"
         THEN [g |-> [g EXCEPT !.luns[lun].cdrom = KernelBool(bytes)], ret |-> "ok"]
    ELSE IF attr = "ro"
         THEN [g |-> [g EXCEPT !.luns[lun].ro = KernelBool(bytes)], ret |-> "ok"]
    ELSE IF KernelFdOf(bytes) \notin DOMAIN open THEN [g |-> g, ret |-> "err"]
    ELSE [g |-> [g EXCEPT !.luns[lun].file = PathOf(open[KernelFdOf(bytes)])], ret |-> "ok"]

\* The outcomes of set_lun's writes: write number failAt fails (0: none does).
SetLunOutcomes == 0..3

IoAt(failAt, k) == IF failAt = k THEN "err" ELSE "ok"

\* A set_lun that attaches the file before it sets the flags.
set_lun_file_first(g, lun, fd, cdrom, ro, failAt, open) ==
    LET w1 == write_configfs_file(g, lun, "file", ProcFdBytes(fd), IoAt(failAt, 1), open)
        w2 == write_configfs_file(w1.g, lun, "cdrom", BoolBytes(cdrom), IoAt(failAt, 2), open)
        w3 == write_configfs_file(w2.g, lun, "ro", BoolBytes(ro), IoAt(failAt, 3), open)
        e1 == <<"write", lun, "file", w1.ret>>
        e2 == <<"write", lun, "cdrom", w2.ret>>
        e3 == <<"write", lun, "ro", w3.ret>>
    IN  IF w1.ret = "err" THEN [g |-> w1.g, ret |-> "err", writes |-> <<e1>>]
        ELSE IF w2.ret = "err" THEN [g |-> w2.g, ret |-> "err", writes |-> <<e1, e2>>]
        ELSE [g |-> w3.g, ret |-> w3.ret, writes |-> <<e1, e2, e3>>]

\* set_lun: cdrom, then ro, then file, stopping at the first error.  `writes`
\* lists the writes made, with their outcomes.
set_lun(g, lun, fd, cdrom, ro, failAt, open) ==
    LET w1 == write_configfs_file(g, lun, "cdrom", BoolBytes(cdrom), IoAt(failAt, 1), open)
        w2 == write_configfs_file(w1.g, lun, "ro", BoolBytes(ro), IoAt(failAt, 2), open)
        w3 == write_configfs_file(w2.g, lun, "file", ProcFdBytes(fd), IoAt(failAt, 3), open)
        e1 == <<"write", lun, "cdrom", w1.ret>>
        e2 == <<"write", lun, "ro", w2.ret>>
        e3 == <<"write", lun, "file", w3.ret>>
    IN  IF w1.ret = "err" THEN [g |-> w1.g, ret |-> "err", writes |-> <<e1>>]
        ELSE IF w2.ret = "err" THEN [g |-> w2.g, ret |-> "err", writes |-> <<e1, e2>>]
        ELSE [g |-> w3.g, ret |-> w3.ret, writes |-> <<e1, e2, e3>>]

\* pop_newline: the data without its final newline, or an error.
pop_newline(data) ==
    IF Len(data) > 0 /\ data[Len(data)] = NL
    THEN [ret |-> "ok", data |-> SubSeq(data, 1, Len(data) - 1)]
    ELSE [ret |-> "err", data |-> data]

\* get_bool: b"1" is true, b"0" is false, anything else an error.
get_bool(data) ==
    IF data = <<"1">> THEN [ret |-> "ok", val |-> TRUE]
    ELSE IF data = <<"0">> THEN [ret |-> "ok", val |-> FALSE]
    ELSE [ret |-> "err", val |-> FALSE]

\* get_lun of an existing LUN: (path, cdrom, ro), or an error.
get_lun(g, lun) ==
    LET file == pop_newline(ShowFile(g.luns[lun].file))
        cdrom == pop_newline(ShowBool(g.luns[lun].cdrom))
        ro == pop_newline(ShowBool(g.luns[lun].ro))
        c == get_bool(cdrom.data)
        r == get_bool(ro.data)
    IN  IF {file.ret, cdrom.ret, ro.ret, c.ret, r.ret} = {"ok"}
        THEN [ret |-> "ok", file |-> file.data, cdrom |-> c.val, ro |-> r.val]
        ELSE [ret |-> "err", file |-> <<>>, cdrom |-> FALSE, ro |-> FALSE]

\* GetMassStorage: one ActiveMassStorageDevice per LUN of the function, by
\* LUN number; the empty list when the function does not exist.
handle_get_mass_storage_request(g) ==
    LET order == Ascending(DOMAIN g.luns)
    IN  [k \in DOMAIN order |-> get_lun(g, order[k])]

(***************************************************************************)
(* Processes (util.rs).  A process table gives each pid the basename of    *)
(* its executable: the gadget HAL's, or another program's.                 *)
(***************************************************************************)
ProcTables(pids) ==
    {[p \in pids |-> IF p \in hal THEN GADGET_HAL_PROCESS ELSE "init"] : hal \in SUBSET pids}

\* find_process: a pidfd for every process whose executable has this name, in
\* the order /proc lists them.
find_process(table, name) == Ascending({p \in DOMAIN table : table[p] = name})

\* A drop that gives up on the rest of the vector when cont() fails.
drop_next_abort(stoppers, io) == IF io = "err" THEN <<>> ELSE Tail(stoppers)

\* What is left of a vector of stoppers once its first element is dropped: Drop
\* ignores the result of cont().
drop_next(stoppers, io) == Tail(stoppers)

(***************************************************************************)
(* Requests.  A client names, for each device, the file it opened and the  *)
(* two flags; receiving the request gives each file a descriptor of the    *)
(* service.                                                                *)
(***************************************************************************)
Device(file, cdrom, ro) == [file |-> file, cdrom |-> cdrom, ro |-> ro]

\* The CLI's cdrom, disk-ro and disk-rw devices, and one that is a directory.
DeviceKinds ==
    {Device("a.iso", TRUE, TRUE), Device("b.img", FALSE, TRUE),
     Device("b.img", FALSE, FALSE), Device("dir", FALSE, FALSE)}

SetMassStorageRequest(devices) == [type |-> "SetMassStorage", devices |-> devices]

NoRequest == [type |-> "none", devices |-> <<>>]

\* The requests a connection of Spec sends.
Requests == {SetMassStorageRequest(d) : d \in SeqsUpTo(DeviceKinds, MaxDevices)}

\* The requests a connection of SpecConc or SpecHal sends.
ConcRequests ==
    {SetMassStorageRequest(<<>>),
     SetMassStorageRequest(<<Device("a.iso", TRUE, TRUE)>>),
     SetMassStorageRequest(<<Device("dir", FALSE, FALSE)>>)}

\* The lowest descriptor number that is not open.
LowestFree(open) ==
    CHOOSE n \in 0..Cardinality(DOMAIN open) :
        n \notin DOMAIN open /\ \A m \in 0..(n - 1) : m \in DOMAIN open

RECURSIVE receive_fds(_, _)
\* The devices of a request as received: each with its new descriptor.
receive_fds(devices, open) ==
    IF devices = <<>> THEN <<>>
    ELSE LET d == Head(devices)
             fd == LowestFree(open)
         IN  <<[fd |-> fd, file |-> d.file, cdrom |-> d.cdrom, ro |-> d.ro]>>
             \o receive_fds(Tail(devices), With(open, fd, d.file))

\* The devices as the client named them.
Sent(devices) == [k \in DOMAIN devices |-> Device(devices[k].file, devices[k].cdrom, devices[k].ro)]

(***************************************************************************)
(* State.                                                                  *)
(***************************************************************************)
VARIABLES
    gadget,      \* the gadget tree
    fds,         \* the service's open descriptors received from clients: fd -> file
    lock,        \* the worker that holds LOCK, 0 when it is free
    pc,          \* worker -> where it is in handle_client
    req,         \* worker -> the request it is handling
    loc,         \* worker -> the locals of handle_set_mass_storage_request
    resp,        \* worker -> the response it is about to send
    halStopped,  \* the pids that are stopped
    trace,       \* worker -> the system calls of its reconfiguration in progress
    last,        \* the result and devices of the latest finished reconfiguration,
                 \* or the latest call of the gadget adapter
    stream,      \* worker -> what was read from and written to its connection
    proc,        \* the service process at start: identity, capabilities, socket
    wire,        \* a message, the bytes it is encoded to and what they decode to
    policy       \* the policy being patched

\* The variables the reconfiguration itself leaves alone.
aux == <<stream, proc, wire, policy>>

vars == <<gadget, fds, lock, pc, req, loc, resp, halStopped, trace, last, stream, proc, wire, policy>>

Workers == 1..MaxConns

Pids == 1..MaxPids

\* The locals before the handler has set them; g0 is the tree when LOCK was
\* taken, listed the vector luns() returned, lunsv what the loop has yet to visit.
NoLocals ==
    [pidfds |-> <<>>, stoppers |-> <<>>, controller |-> Unbound, lunsv |-> <<>>,
     listed |-> <<>>, i |-> 0, result |-> "none", g0 |-> CleanGadget]

\* One system call (or signal) of a reconfiguration.
Event(op, n, s, ret) == [op |-> op, n |-> n, s |-> s, ret |-> ret]

\* A function with lun.0 .. lun.(k-1) attached, linked and bound: what an
\* earlier run of the service left.
LeftBehind(k) ==
    [UDC |-> ControllerId,
     configs |-> [l \in {OtherLink, CONFIG_NAME} |->
                     IF l = CONFIG_NAME THEN FUNCTION_NAME ELSE OtherFunction],
     function |-> TRUE,
     luns |-> [n \in 0..(k - 1) |-> [cdrom |-> FALSE, ro |-> TRUE, file |-> PathOf("b.img")]]]

\* The service process once it listens: system:system, CAP_CHOWN only.
Serving ==
    [pc |-> "serving", uid |-> 1000, gid |-> 1000]

\* No message is being encoded.
NoWire == [pc |-> "none"]

\* No policy is being patched.
NoPolicy == [pc |-> "none"]

Init ==
    /\ gadget \in {CleanGadget} \cup {LeftBehind(k) : k \in 1..MaxInitLuns}
    /\ fds = [n \in {} |-> "dir"]
    /\ lock = 0
    /\ pc = [w \in Workers |-> "recv"]
    /\ req = [w \in Workers |-> NoRequest]
    /\ loc = [w \in Workers |-> NoLocals]
    /\ resp = [w \in Workers |-> "none"]
    /\ halStopped = {}
    /\ trace = [w \in Workers |-> <<>>]
    /\ last = [result |-> "none", devices |-> <<>>]
    /\ stream = [w \in Workers |-> <<>>]
    /\ proc = Serving
    /\ wire = NoWire
    /\ policy = NoPolicy

(***************************************************************************)
(* handle_client: the request loop of one worker.                          *)
(***************************************************************************)
\* Where a failed handler goes: its stoppers, if any, are dropped first.
ExitPc(stoppers) == IF stoppers = <<>> THEN "unlock" ELSE "drop"

\* The handler of worker w returns Err from the step it is at.
Fail(w) ==
    /\ pc' = [pc EXCEPT ![w] = ExitPc(loc[w].stoppers)]
    /\ loc' = [loc EXCEPT ![w].result = "Err", ![w].pidfds = <<>>, ![w].lunsv = <<>>]

Log(w, events) == trace' = [trace EXCEPT ![w] = @ \o events]

\* Request::from_socket: the worker receives a request and its descriptors.
ReceiveRequest(w, requests) ==
    /\ pc[w] = "recv"
    /\ \E r \in requests :
        LET devices == receive_fds(r.devices, fds)
        IN  /\ req' = [req EXCEPT ![w] = [type |-> r.type, devices |-> devices]]
            /\ fds' = [n \in DOMAIN fds \cup {d.fd : d \in Range(devices)} |->
                         IF n \in DOMAIN fds THEN fds[n]
                         ELSE (CHOOSE d \in Range(devices) : d.fd = n).file]
    /\ pc' = [pc EXCEPT ![w] = "lock"]
    /\ UNCHANGED <<gadget, lock, loc, resp, halStopped, trace, last>>

\* A request arrives on a connection that is past its handshake.
RecvRequest(w, requests) == ReceiveRequest(w, requests) /\ UNCHANGED aux

\* A lock() that returns whether or not the mutex is held.
LockFreeAlways == TRUE

\* Whether LOCK.lock() returns: the mutex is free.
LockFree == lock = 0

\* let _lock = LOCK.lock().unwrap();
Lock(w) ==
    /\ pc[w] = "lock"
    /\ LockFree
    /\ lock' = w
    /\ pc' = [pc EXCEPT ![w] = "validate"]
    /\ loc' = [loc EXCEPT ![w] = [NoLocals EXCEPT !.g0 = gadget]]
    /\ trace' = [trace EXCEPT ![w] = <<>>]
    /\ UNCHANGED <<gadget, fds, req, resp, halStopped, last>>
    /\ UNCHANGED aux

\* A validation that looks at the first device only.
AllRegularFirstOnly(devices, io) ==
    /\ io = "ok"
    /\ devices # <<>> => St_mode(devices[1].file) = "RegularFile"

\* Whether the validation loop passes: every fstat succeeds and reports a
\* regular file.
AllRegular(devices, io) ==
    /\ io = "ok"
    /\ \A k \in DOMAIN devices : St_mode(devices[k].file) = "RegularFile"

\* for device in &request.devices { fstat; bail unless a regular file }
Validate(w) ==
    /\ pc[w] = "validate"
    /\ \E io \in IoOutcomes :
        /\ io = "err" => req[w].devices # <<>>
        /\ IF AllRegular(req[w].devices, io)
           THEN pc' = [pc EXCEPT ![w] = "gadget_new"] /\ UNCHANGED loc
           ELSE Fail(w)
    /\ UNCHANGED <<gadget, fds, lock, req, resp, halStopped, trace, last>>
    /\ UNCHANGED aux

\* UsbGadget::new: open the gadget directory and chown it.
GadgetNew(w) ==
    /\ pc[w] = "gadget_new"
    /\ \E io \in IoOutcomes :
        IF io = "ok"
        THEN pc' = [pc EXCEPT ![w] = "find_process"] /\ UNCHANGED loc
        ELSE Fail(w)
    /\ UNCHANGED <<gadget, fds, lock, req, resp, halStopped, trace, last>>
    /\ UNCHANGED aux

\* util::find_process(GADGET_HAL_PROCESS)
FindProcess(w, pids) ==
    /\ pc[w] = "find_process"
    /\ \E io \in IoOutcomes, table \in ProcTables(pids) :
        IF io = "ok"
        THEN /\ pc' = [pc EXCEPT ![w] = "stoppers"]
             /\ loc' = [loc EXCEPT ![w].pidfds = find_process(table, GADGET_HAL_PROCESS)]
             /\ Log(w, <<Event("find_process", Len(find_process(table, GADGET_HAL_PROCESS)), "", "ok")>>)
        ELSE Fail(w) /\ Log(w, <<Event("find_process", 0, "", "err")>>)
    /\ UNCHANGED <<gadget, fds, lock, req, resp, halStopped, last>>
    /\ UNCHANGED aux

\* ProcessStopper::new on the next pidfd: SIGSTOP; when that fails the
\* half-built stopper is dropped, which sends SIGCONT, and collect() stops.
StopperNew(w) ==
    /\ pc[w] = "stoppers"
    /\ loc[w].pidfds # <<>>
    /\ LET p == Head(loc[w].pidfds)
       IN  \E io \in IoOutcomes, cio \in IoOutcomes :
            IF io = "ok"
            THEN /\ cio = "ok"
                 /\ loc' = [loc EXCEPT ![w].pidfds = Tail(@), ![w].stoppers = Append(@, p)]
                 /\ halStopped' = halStopped \cup {p}
                 /\ Log(w, <<Event("stop", p, "", "ok")>>)
                 /\ UNCHANGED pc
            ELSE /\ pc' = [pc EXCEPT ![w] = ExitPc(loc[w].stoppers)]
                 /\ loc' = [loc EXCEPT ![w].result = "Err", ![w].pidfds = <<>>]
                 /\ halStopped' = halStopped \ {p}
                 /\ Log(w, <<Event("stop", p, "", "err"), Event("cont", p, "", cio)>>)
    /\ UNCHANGED <<gadget, fds, lock, req, resp, last>>
    /\ UNCHANGED aux

\* A check that never finds the vector of stoppers empty.
NoStoppersNever(stoppers) == FALSE

\* gadget_hal_stoppers.is_empty()
NoStoppers(stoppers) == stoppers = <<>>

\* if gadget_hal_stoppers.is_empty() { bail }
StoppersDone(w) ==
    /\ pc[w] = "stoppers"
    /\ loc[w].pidfds = <<>>
    /\ IF NoStoppers(loc[w].stoppers)
       THEN Fail(w)
       ELSE pc' = [pc EXCEPT ![w] = "usb_controller"] /\ UNCHANGED loc
    /\ UNCHANGED <<gadget, fds, lock, req, resp, halStopped, trace, last>>
    /\ UNCHANGED aux

\* What usb_controller() yields: the property's value, no value, or an error.
usb_controller == {"some", "none", "err"}

\* let Some(controller) = usb_controller()? else { bail }
UsbController(w) ==
    /\ pc[w] = "usb_controller"
    /\ \E c \in usb_controller :
        IF c = "some"
        THEN /\ pc' = [pc EXCEPT ![w] = "unbind"]
             /\ loc' = [loc EXCEPT ![w].controller = ControllerId]
        ELSE Fail(w)
    /\ UNCHANGED <<gadget, fds, lock, req, resp, halStopped, trace, last>>
    /\ UNCHANGED aux

\* gadget.set_controller(None)?
Unbind(w) ==
    /\ pc[w] = "unbind"
    /\ \E io \in IoOutcomes :
        LET r == set_controller(gadget, Unbound, io)
        IN  /\ gadget' = r.g
            /\ Log(w, <<Event("UDC", -1, Unbound, r.ret)>>)
            /\ IF r.ret = "err"
               THEN Fail(w)
               ELSE pc' = [pc EXCEPT ![w] = "delete_config"] /\ UNCHANGED loc
    /\ UNCHANGED <<fds, lock, req, resp, halStopped, last>>
    /\ UNCHANGED aux

\* gadget.delete_config(config_name)?
DeleteConfig(w) ==
    /\ pc[w] = "delete_config"
    /\ \E io \in IoOutcomes :
        LET r == delete_config(gadget, CONFIG_NAME, io)
        IN  /\ gadget' = r.g
            /\ Log(w, <<Event("delete_config", -1, CONFIG_NAME, r.ret)>>)
            /\ IF r.ret = "err"
               THEN Fail(w)
               ELSE pc' = [pc EXCEPT ![w] = "open_function"] /\ UNCHANGED loc
    /\ UNCHANGED <<fds, lock, req, resp, halStopped, last>>
    /\ UNCHANGED aux

\* if let Some(function) = gadget.open_mass_storage_function(function_name)?
OpenFunction(w) ==
    /\ pc[w] = "open_function"
    /\ \E io \in IoOutcomes :
        LET r == open_mass_storage_function(gadget, io)
        IN  IF r = "err" THEN Fail(w)
            ELSE /\ pc' = [pc EXCEPT ![w] = IF r = "some" THEN "luns" ELSE "delete_function"]
                 /\ UNCHANGED loc
    /\ UNCHANGED <<gadget, fds, lock, req, resp, halStopped, trace, last>>
    /\ UNCHANGED aux

\* function.luns()?: the directory is listed in an order the kernel chooses.
Luns(w) ==
    /\ pc[w] = "luns"
    /\ \E io \in IoOutcomes, listing \in Perms(DirEntries(gadget)) :
        IF io = "err" THEN Fail(w)
        ELSE /\ pc' = [pc EXCEPT ![w] =
                        IF luns(listing) = <<>> THEN "delete_function" ELSE "delete_luns"]
             /\ loc' = [loc EXCEPT ![w].lunsv = luns(listing), ![w].listed = luns(listing)]
    /\ UNCHANGED <<gadget, fds, lock, req, resp, halStopped, trace, last>>
    /\ UNCHANGED aux

\* A loop that deletes lun.0 too.
DeletableAll(lun) == TRUE

\* Whether the loop deletes this LUN: lun != 0.
Deletable(lun) == lun # 0

\* for lun in luns { if lun != 0 && function.delete_lun(lun)? { .. } }
DeleteLun(w) ==
    /\ pc[w] = "delete_luns"
    /\ LET lun == Head(loc[w].lunsv)
           rest == Tail(loc[w].lunsv)
           next == IF rest = <<>> THEN "delete_function" ELSE "delete_luns"
       IN  IF Deletable(lun)
           THEN \E io \in IoOutcomes :
                   LET r == delete_lun(gadget, lun, io)
                   IN  /\ gadget' = r.g
                       /\ Log(w, <<Event("delete_lun", lun, "", r.ret)>>)
                       /\ IF r.ret = "err"
                          THEN Fail(w)
                          ELSE /\ pc' = [pc EXCEPT ![w] = next]
                               /\ loc' = [loc EXCEPT ![w].lunsv = rest]
           ELSE /\ pc' = [pc EXCEPT ![w] = next]
                /\ loc' = [loc EXCEPT ![w].lunsv = rest]
                /\ UNCHANGED <<gadget, trace>>
    /\ UNCHANGED <<fds, lock, req, resp, halStopped, last>>
    /\ UNCHANGED aux

\* gadget.delete_function(function_name)?, then the rebuild if devices are given.
DeleteFunction(w) ==
    /\ pc[w] = "delete_function"
    /\ \E io \in IoOutcomes :
        LET r == delete_function(gadget, io)
        IN  /\ gadget' = r.g
            /\ Log(w, <<Event("delete_function", -1, FUNCTION_NAME, r.ret)>>)
            /\ IF r.ret = "err"
               THEN Fail(w)
               ELSE /\ pc' = [pc EXCEPT ![w] =
                               IF req[w].devices # <<>> THEN "create_function" ELSE "rebind"]
                    /\ UNCHANGED loc
    /\ UNCHANGED <<fds, lock, req, resp, halStopped, last>>
    /\ UNCHANGED aux

\* gadget.create_function(function_name)?
CreateFunction(w) ==
    /\ pc[w] = "create_function"
    /\ \E io \in IoOutcomes :
        LET r == create_function(gadget, io)
        IN  /\ gadget' = r.g
            /\ Log(w, <<Event("create_function", -1, FUNCTION_NAME, r.ret)>>)
            /\ IF r.ret = "err"
               THEN Fail(w)
               ELSE pc' = [pc EXCEPT ![w] = "open_new"] /\ UNCHANGED loc
    /\ UNCHANGED <<fds, lock, req, resp, halStopped, last>>
    /\ UNCHANGED aux

\* gadget.open_mass_storage_function(function_name)?.ok_or_else(..)?
OpenNew(w) ==
    /\ pc[w] = "open_new"
    /\ \E io \in IoOutcomes :
        IF open_mass_storage_function(gadget, io) = "some"
        THEN /\ pc' = [pc EXCEPT ![w] = "create_lun"]
             /\ loc' = [loc EXCEPT ![w].i = 1]
        ELSE Fail(w)
    /\ UNCHANGED <<gadget, fds, lock, req, resp, halStopped, trace, last>>
    /\ UNCHANGED aux

\* A numbering of the LUNs that counts from 1.
LunOfFromOne(k) == k

\* The LUN of the k-th device of the request: enumerate() counts from 0.
LunOf(k) == k - 1

\* if lun > 0 && function.create_lun(lun)? { .. }: lun.0 exists by default.
CreateLun(w) ==
    /\ pc[w] = "create_lun"
    /\ LET lun == LunOf(loc[w].i)
       IN  IF lun > 0
           THEN \E io \in IoOutcomes :
                   LET r == create_lun(gadget, lun, io)
                   IN  /\ gadget' = r.g
                       /\ Log(w, <<Event("create_lun", lun, "", r.ret)>>)
                       /\ IF r.ret = "err"
                          THEN Fail(w)
                          ELSE pc' = [pc EXCEPT ![w] = "set_lun"] /\ UNCHANGED loc
           ELSE /\ pc' = [pc EXCEPT ![w] = "set_lun"]
                /\ UNCHANGED <<gadget, trace, loc>>
    /\ UNCHANGED <<fds, lock, req, resp, halStopped, last>>
    /\ UNCHANGED aux

\* function.set_lun(lun, device.fd, device.cdrom, device.ro)?
SetLun(w) ==
    /\ pc[w] = "set_lun"
    /\ \E failAt \in SetLunOutcomes :
        LET d == req[w].devices[loc[w].i]
            r == set_lun(gadget, LunOf(loc[w].i), d.fd, d.cdrom, d.ro, failAt, fds)
        IN  /\ gadget' = r.g
            /\ Log(w, [k \in DOMAIN r.writes |->
                          Event("write", r.writes[k][2], r.writes[k][3], r.writes[k][4])])
            /\ IF r.ret = "err"
               THEN Fail(w)
               ELSE IF loc[w].i < Len(req[w].devices)
                    THEN /\ pc' = [pc EXCEPT ![w] = "create_lun"]
                         /\ loc' = [loc EXCEPT ![w].i = @ + 1]
                    ELSE /\ pc' = [pc EXCEPT ![w] = "create_config"]
                         /\ UNCHANGED loc
    /\ UNCHANGED <<fds, lock, req, resp, halStopped, last>>
    /\ UNCHANGED aux

\* A create_config whose error is dropped: the handler goes on to rebind.
CreateConfigUnchecked(w) ==
    /\ pc[w] = "create_config"
    /\ \E io \in IoOutcomes :
        LET r == create_config(gadget, CONFIG_NAME, FUNCTION_NAME, io)
        IN  /\ gadget' = r.g
            /\ Log(w, <<Event("create_config", -1, CONFIG_NAME, r.ret)>>)
            /\ pc' = [pc EXCEPT ![w] = "rebind"] /\ UNCHANGED loc
    /\ UNCHANGED <<fds, lock, req, resp, halStopped, last>>
    /\ UNCHANGED aux

\* gadget.create_config(config_name, function_name)?
CreateConfig(w) ==
    /\ pc[w] = "create_config"
    /\ \E io \in IoOutcomes :
        LET r == create_config(gadget, CONFIG_NAME, FUNCTION_NAME, io)
        IN  /\ gadget' = r.g
            /\ Log(w, <<Event("create_config", -1, CONFIG_NAME, r.ret)>>)
            /\ IF r.ret = "err"
               THEN Fail(w)
               ELSE pc' = [pc EXCEPT ![w] = "rebind"] /\ UNCHANGED loc
    /\ UNCHANGED <<fds, lock, req, resp, halStopped, last>>
    /\ UNCHANGED aux

\* gadget.set_controller(Some(&controller))?; Ok(())
Rebind(w) ==
    /\ pc[w] = "rebind"
    /\ \E io \in UdcOutcomes :
        LET r == set_controller(gadget, loc[w].controller, io)
        IN  /\ gadget' = r.g
            /\ Log(w, <<Event("UDC", -1, loc[w].controller, r.ret)>>)
            /\ IF r.ret = "err"
               THEN Fail(w)
               ELSE /\ pc' = [pc EXCEPT ![w] = ExitPc(loc[w].stoppers)]
                    /\ loc' = [loc EXCEPT ![w].result = "Ok"]
    /\ UNCHANGED <<fds, lock, req, resp, halStopped, last>>
    /\ UNCHANGED aux

\* A handler whose guard of LOCK is dropped before its stoppers are.
DropStopperUnlocked(w) ==
    /\ pc[w] = "drop"
    /\ LET p == Head(loc[w].stoppers)
       IN  \E io \in IoOutcomes :
            /\ halStopped' = halStopped \ {p}
            /\ Log(w, <<Event("cont", p, "", io)>>)
            /\ loc' = [loc EXCEPT ![w].stoppers = drop_next(loc[w].stoppers, io)]
            /\ pc' = [pc EXCEPT ![w] = ExitPc(drop_next(loc[w].stoppers, io))]
    /\ lock' = 0
    /\ UNCHANGED <<gadget, fds, req, resp, last>>
    /\ UNCHANGED aux

\* Drop for ProcessStopper, for the next stopper of the vector: SIGCONT.
DropStopper(w) ==
    /\ pc[w] = "drop"
    /\ LET p == Head(loc[w].stoppers)
       IN  \E io \in IoOutcomes :
            /\ halStopped' = halStopped \ {p}
            /\ Log(w, <<Event("cont", p, "", io)>>)
            /\ loc' = [loc EXCEPT ![w].stoppers = drop_next(loc[w].stoppers, io)]
            /\ pc' = [pc EXCEPT ![w] = ExitPc(drop_next(loc[w].stoppers, io))]
    /\ UNCHANGED <<gadget, fds, lock, req, resp, last>>
    /\ UNCHANGED aux

\* A handler whose guard of LOCK is released only when it returns Ok.
UnlockOnOk(w) ==
    /\ pc[w] = "unlock"
    /\ lock' = IF loc[w].result = "Ok" THEN 0 ELSE lock
    /\ pc' = [pc EXCEPT ![w] = "respond"]
    /\ resp' = [resp EXCEPT ![w] =
                   IF loc[w].result = "Ok" THEN "SetMassStorageResponse" ELSE "ErrorResponse"]
    /\ last' = [result |-> loc[w].result,
                devices |-> IF loc[w].result = "Ok" THEN Sent(req[w].devices) ELSE <<>>]
    /\ loc' = [loc EXCEPT ![w] = NoLocals]
    /\ trace' = [trace EXCEPT ![w] = <<>>]
    /\ UNCHANGED <<gadget, fds, req, halStopped>>
    /\ UNCHANGED aux

\* The handler returns: its locals and _lock are dropped, and handle_request
\* has the Response.
Unlock(w) ==
    /\ pc[w] = "unlock"
    /\ lock' = 0
    /\ pc' = [pc EXCEPT ![w] = "respond"]
    /\ resp' = [resp EXCEPT ![w] =
                   IF loc[w].result = "Ok" THEN "SetMassStorageResponse" ELSE "ErrorResponse"]
    /\ last' = [result |-> loc[w].result,
                devices |-> IF loc[w].result = "Ok" THEN Sent(req[w].devices) ELSE <<>>]
    /\ loc' = [loc EXCEPT ![w] = NoLocals]
    /\ trace' = [trace EXCEPT ![w] = <<>>]
    /\ UNCHANGED <<gadget, fds, req, halStopped>>
    /\ UNCHANGED aux

\* A worker that returns once it has sent a response.
AfterResponseClose(io) == "closed"

\* A worker that does not go back to reading after it has sent a response.
AfterResponseAgain(io) == IF io = "ok" THEN "respond" ELSE "closed"

\* Where the worker goes after to_socket: round the loop, or out with the error.
AfterResponse(io) == IF io = "ok" THEN "recv" ELSE "closed"

\* A worker that keeps the descriptors of the requests it has answered.
WriteResponseKeepFds(w, io) ==
    /\ pc[w] = "respond"
    /\ pc' = [pc EXCEPT ![w] = AfterResponse(io)]
    /\ req' = [req EXCEPT ![w] = NoRequest]
    /\ resp' = [resp EXCEPT ![w] = "none"]
    /\ UNCHANGED <<gadget, fds, lock, loc, halStopped, trace, last>>

\* response.to_socket(&mut stream)?; the request and its descriptors are dropped.
WriteResponse(w, io) ==
    /\ pc[w] = "respond"
    /\ pc' = [pc EXCEPT ![w] = AfterResponse(io)]
    /\ fds' = [n \in DOMAIN fds \ {d.fd : d \in Range(req[w].devices)} |-> fds[n]]
    /\ req' = [req EXCEPT ![w] = NoRequest]
    /\ resp' = [resp EXCEPT ![w] = "none"]
    /\ UNCHANGED <<gadget, lock, loc, halStopped, trace, last>>

\* The response is written and the worker reads on.
SendResponse(w) == WriteResponse(w, "ok") /\ UNCHANGED aux

\* One step of handle_set_mass_storage_request by worker w.
SetMassStorage(w, pids) ==
    \/ Lock(w)
    \/ Validate(w)
    \/ GadgetNew(w)
    \/ FindProcess(w, pids)
    \/ StopperNew(w)
    \/ StoppersDone(w)
    \/ UsbController(w)
    \/ Unbind(w)
    \/ DeleteConfig(w)
    \/ OpenFunction(w)
    \/ Luns(w)
    \/ DeleteLun(w)
    \/ DeleteFunction(w)
    \/ CreateFunction(w)
    \/ OpenNew(w)
    \/ CreateLun(w)
    \/ SetLun(w)
    \/ CreateConfig(w)
    \/ Rebind(w)
    \/ DropStopper(w)
    \/ Unlock(w)

\* One connection, any request, one process id.
Next ==
    \/ RecvRequest(1, Requests)
    \/ SetMassStorage(1, {1})
    \/ SendResponse(1)

Spec == Init /\ [][Next]_vars

\* The tree is the clean one at first.
InitClean == Init /\ gadget = CleanGadget

\* Several connections with short requests, one process id.
NextConc ==
    \E w \in Workers :
        \/ RecvRequest(w, ConcRequests)
        \/ SetMassStorage(w, {1})
        \/ SendResponse(w)

SpecConc == InitClean /\ [][NextConc]_vars

\* One connection with short requests, several process ids.
NextHal ==
    \/ RecvRequest(1, ConcRequests)
    \/ SetMassStorage(1, Pids)
    \/ SendResponse(1)

SpecHal == InitClean /\ [][NextHal]_vars

(***************************************************************************)
(* The reconfiguration as a function of the tree: what the handler leaves  *)
(* when every call it makes succeeds.                                      *)
(***************************************************************************)
RECURSIVE DeleteLuns(_, _)
\* The teardown loop over a vector of LUNs.
DeleteLuns(g, lunsv) ==
    IF lunsv = <<>> THEN g
    ELSE DeleteLuns(IF Deletable(Head(lunsv)) THEN delete_lun(g, Head(lunsv), "ok").g ELSE g,
                    Tail(lunsv))

RECURSIVE SetLuns(_, _, _, _)
\* The rebuild loop from the k-th device on.
SetLuns(g, devices, k, open) ==
    IF k > Len(devices) THEN g
    ELSE LET lun == LunOf(k)
             d == devices[k]
             g1 == IF lun > 0 THEN create_lun(g, lun, "ok").g ELSE g
         IN  SetLuns(set_lun(g1, lun, d.fd, d.cdrom, d.ro, 0, open).g, devices, k + 1, open)

handle_set_mass_storage_request(g, devices, controller, open) ==
    LET g1 == set_controller(g, Unbound, "ok").g
        g2 == delete_config(g1, CONFIG_NAME, "ok").g
        g3 == DeleteLuns(g2, Ascending(DOMAIN g2.luns))
        g4 == delete_function(g3, "ok").g
        g5 == IF devices # <<>>
              THEN create_config(SetLuns(create_function(g4, "ok").g, devices, 1, open),
                                 CONFIG_NAME, FUNCTION_NAME, "ok").g
              ELSE g4
    IN  set_controller(g5, controller, "ok").g

(***************************************************************************)
(* Properties.                                                             *)
(***************************************************************************)
\* Worker w is between taking LOCK and releasing it.
InHandler(w) ==
    pc[w] \in {"validate", "gadget_new", "find_process", "stoppers", "usb_controller",
               "unbind", "delete_config", "open_function", "luns", "delete_luns",
               "delete_function", "create_function", "open_new", "create_lun", "set_lun",
               "create_config", "rebind", "drop", "unlock"}

\* The handler of worker w is returning: its result is set, LOCK still held.
Returning(w) == pc[w] = "unlock"

\* The positions of the trace of w.
Steps(w) == DOMAIN trace[w]

\* The calls that write to the gadget tree.
MutatingOps ==
    {"UDC", "delete_config", "delete_lun", "delete_function", "create_function",
     "create_lun", "write", "create_config"}

\* C1: at most one worker is between acquiring the reconfiguration mutex and
\* releasing it, at any time.
MutualExclusion == Cardinality({w \in Workers : InHandler(w)}) <= 1

\* One worker is reconfiguring while another has a request and waits for LOCK.
MutualExclusionWitness ==
    \E w1, w2 \in Workers :
        /\ w1 # w2
        /\ pc[w1] = "lock"
        /\ pc[w2] = "set_lun"

\* C2: when the handler returns, on whichever path, every HAL process that was
\* sent a stop signal has afterwards been sent a continue signal, also when a
\* continue sent before it failed.
StoppedAreContinued ==
    \A w \in Workers :
        Returning(w) =>
            \A k \in Steps(w) :
                trace[w][k].op = "stop" =>
                    \E j \in Steps(w) :
                        j > k /\ trace[w][j].op = "cont" /\ trace[w][j].n = trace[w][k].n

\* Two processes were stopped, the continue of the first failed, the second
\* was continued after it, and the handler returns.
StoppedAreContinuedWitness ==
    \E w \in Workers :
        /\ Returning(w)
        /\ \E i, j, k \in Steps(w) :
            /\ i < j /\ j < k
            /\ trace[w][i] = Event("stop", 2, "", "ok")
            /\ trace[w][j] = Event("cont", 1, "", "err")
            /\ trace[w][k].op = "cont" /\ trace[w][k].n = 2

\* The process search of w succeeded and found no HAL process.
NoHalFound(w) == \E k \in Steps(w) : trace[w][k] = Event("find_process", 0, "", "ok")

\* C3: when no gadget HAL process is found the reconfiguration fails, and it
\* has written nothing to UDC and created or deleted nothing in the tree.
NoHalNoChange ==
    \A w \in Workers :
        NoHalFound(w) =>
            /\ pc[w] \in {"stoppers", "unlock"}
            /\ Returning(w) => loc[w].result = "Err"
            /\ gadget = loc[w].g0
            /\ \A k \in Steps(w) : trace[w][k].op \notin MutatingOps

\* The handler returns after finding no HAL process, a function being there.
NoHalNoChangeWitness ==
    \E w \in Workers :
        /\ Returning(w)
        /\ NoHalFound(w)
        /\ loc[w].g0.function
        /\ req[w].devices # <<>>

\* The request of w holds a descriptor that is not a regular file.
HasNonRegular(w) ==
    \E k \in DOMAIN req[w].devices : St_mode(req[w].devices[k].file) # "RegularFile"

\* C4: a request with a descriptor that is not a regular file is answered with
\* an ErrorResponse, before any stop signal, any write to UDC and any change
\* of the tree: the tree and what GetMassStorage returns are as they were.
RejectedBeforeAnyEffect ==
    \A w \in Workers :
        HasNonRegular(w) =>
            /\ pc[w] \in {"lock", "validate", "unlock", "respond"}
            /\ Returning(w) => loc[w].result = "Err"
            /\ pc[w] = "respond" => resp[w] = "ErrorResponse"
            /\ InHandler(w) =>
                /\ trace[w] = <<>>
                /\ halStopped = {}
                /\ gadget = loc[w].g0
                /\ handle_get_mass_storage_request(gadget)
                       = handle_get_mass_storage_request(loc[w].g0)

\* The handler returns from a request whose first descriptor is a regular
\* file and whose second is not, a function being there.
RejectedBeforeAnyEffectWitness ==
    \E w \in Workers :
        /\ Returning(w)
        /\ Len(req[w].devices) = 2
        /\ St_mode(req[w].devices[1].file) = "RegularFile"
        /\ St_mode(req[w].devices[2].file) # "RegularFile"
        /\ loc[w].g0.function

Idempotent ==
    \A w \in Workers :
        (/\ Returning(w) /\ loc[w].result = "Ok"
         /\ last.result = "Ok" /\ last.devices = Sent(req[w].devices)) =>
            gadget = loc[w].g0

\* The second of two successful calls with the same two devices returns.
IdempotentWitness ==
    \E w \in Workers :
        /\ Returning(w) /\ loc[w].result = "Ok"
        /\ last.result = "Ok" /\ last.devices = Sent(req[w].devices)
        /\ Len(req[w].devices) = 2

\* C7: a failed reconfiguration is not rolled back, and a successful
\* SetMassStorage after it, as after any other, leaves the tree that a
\* successful call with these devices leaves when started from the clean tree.
RecoversLikeFromClean ==
    \A w \in Workers :
        (Returning(w) /\ loc[w].result = "Ok") =>
            gadget = handle_set_mass_storage_request(CleanGadget, req[w].devices,
                                                     loc[w].controller, fds)

\* A call succeeds on the tree left by one that failed during its rebuild:
\* unbound, the function there with two LUNs, not linked.
RecoversLikeFromCleanWitness ==
    \E w \in Workers :
        /\ Returning(w) /\ loc[w].result = "Ok"
        /\ last.result = "Err"
        /\ loc[w].g0.UDC = Unbound
        /\ loc[w].g0.function /\ ~Linked(loc[w].g0)
        /\ Cardinality(DOMAIN loc[w].g0.luns) = 2

\* After a successful call of w with the empty list, neither the config link
\* nor the function exists.
EmptyTearsDown(w) ==
    (Returning(w) /\ loc[w].result = "Ok" /\ req[w].devices = <<>>) =>
        /\ CONFIG_NAME \notin DOMAIN configs(gadget)
        /\ ~gadget.function

\* C8: after a successful SetMassStorage with the empty list the config link
\* msd and the function mass_storage.msd do not exist, and UDC holds the
\* controller id again.
EmptyTearsDownAndRebinds ==
    \A w \in Workers :
        /\ EmptyTearsDown(w)
        /\ (Returning(w) /\ loc[w].result = "Ok" /\ req[w].devices = <<>>) =>
                gadget.UDC = ControllerId

\* C8 as the specification states it: UDC is left empty.
EmptyTearsDownAndLeavesUnbound ==
    \A w \in Workers :
        /\ EmptyTearsDown(w)
        /\ (Returning(w) /\ loc[w].result = "Ok" /\ req[w].devices = <<>>) =>
                gadget.UDC = Unbound

\* A successful call with the empty list returns, having found the function
\* linked and bound.
EmptyTearsDownWitness ==
    \E w \in Workers :
        /\ Returning(w) /\ loc[w].result = "Ok" /\ req[w].devices = <<>>
        /\ loc[w].g0.function /\ Linked(loc[w].g0)
        /\ loc[w].g0.UDC = ControllerId

\* C9: for each LUN the writes are cdrom, then ro, then file: ro is written
\* only after cdrom was, file only after cdrom and ro were, all successfully.
FlagsBeforeFile ==
    \A w \in Workers : \A k \in Steps(w) :
        LET e == trace[w][k]
        IN  /\ (e.op = "write" /\ e.s = "ro") =>
                /\ k > 1
                /\ trace[w][k - 1] = Event("write", e.n, "cdrom", "ok")
            /\ (e.op = "write" /\ e.s = "file") =>
                /\ k > 2
                /\ trace[w][k - 2] = Event("write", e.n, "cdrom", "ok")
                /\ trace[w][k - 1] = Event("write", e.n, "ro", "ok")

\* The file of lun.0 was written, the write of ro of lun.1 failed, and the
\* handler returns without a write of the file of lun.1.
FlagsBeforeFileWitness ==
    \E w \in Workers :
        /\ Returning(w)
        /\ \E k \in Steps(w) : trace[w][k] = Event("write", 0, "file", "ok")
        /\ \E k \in Steps(w) : trace[w][k] = Event("write", 1, "ro", "err")
        /\ \A k \in Steps(w) : ~(trace[w][k].op = "write" /\ trace[w][k].n = 1
                                  /\ trace[w][k].s = "file")

\* The LUNs the teardown of w asked the kernel to delete, in that order.
DeletedLuns(w) ==
    LET isDelete(e) == e.op = "delete_lun"
        kept == SelectSeq(trace[w], isDelete)
    IN  [k \in DOMAIN kept |-> kept[k].n]

\* The teardown of w never asks to delete lun.0, and asks to delete the
\* function only after the config link and every LUN above 0 are deleted.
TeardownOrder(w) ==
    /\ \A k \in Steps(w) : trace[w][k].op = "delete_lun" => trace[w][k].n # 0
    /\ \A k \in Steps(w) :
        trace[w][k].op = "delete_function" =>
            /\ \E j \in Steps(w) :
                j < k /\ trace[w][j].op = "delete_config" /\ trace[w][j].ret # "err"
            /\ \A n \in DOMAIN loc[w].g0.luns \ {0} :
                \E j \in Steps(w) : j < k /\ trace[w][j] = Event("delete_lun", n, "", "true")

\* C10: the teardown never attempts to delete lun.0, deletes every LUN above 0
\* and the config link before the function, and deletes the LUNs in the order
\* in which the function's directory lists them.
TeardownInListingOrder ==
    \A w \in Workers :
        /\ TeardownOrder(w)
        /\ \E m \in 0..Len(loc[w].listed) :
            DeletedLuns(w) = SubSeq(SelectSeq(loc[w].listed, Deletable), 1, m)

\* C10 as the specification states it: the LUNs are deleted from the highest
\* down, lun.2 then lun.1 then the function.
TeardownInDescendingOrder ==
    \A w \in Workers :
        /\ TeardownOrder(w)
        /\ \A j, k \in DOMAIN DeletedLuns(w) :
            j < k => DeletedLuns(w)[j] > DeletedLuns(w)[k]

\* A tree with three LUNs is replaced: lun.1 was deleted, then lun.2, then the
\* function.
TeardownWitness ==
    \E w \in Workers :
        /\ Returning(w) /\ loc[w].result = "Ok"
        /\ DOMAIN loc[w].g0.luns = {0, 1, 2}
        /\ DeletedLuns(w) = <<1, 2>>
        /\ \E k \in Steps(w) : trace[w][k] = Event("delete_function", -1, FUNCTION_NAME, "true")

(***************************************************************************)
(* A connection, from the spawn of its worker to its end (daemon.rs:       *)
(* subcommand_daemon, handle_client).  stream[w] lists what the worker     *)
(* learnt of its peer and what it read from and wrote to the socket.       *)
(***************************************************************************)
\* The requests a connection of SpecConnection may send before its peer closes it.
MaxRequests == 2

PROTOCOL_VERSION == 1

ErrorResponse_ID == 1

GetFunctionsRequest_ID == 2

GetFunctionsResponse_ID == 3

SetMassStorageRequest_ID == 4

SetMassStorageResponse_ID == 5

GetMassStorageRequest_ID == 6

GetMassStorageResponse_ID == 7

\* The version bytes a peer may send, and the tag bytes.
VersionBytes == 0..2

TagBytes == {0, GetFunctionsRequest_ID, SetMassStorageRequest_ID, GetMassStorageRequest_ID, 8}

\* Request::from_socket: the variant a tag byte selects.
RequestOf(id) ==
    IF id = GetFunctionsRequest_ID THEN "GetFunctions"
    ELSE IF id = SetMassStorageRequest_ID THEN "SetMassStorage"
    ELSE IF id = GetMassStorageRequest_ID THEN "GetMassStorage"
    ELSE "InvalidData"

\* Response::to_socket: the tag byte of a response.
ResponseId(response) ==
    IF response = "ErrorResponse" THEN ErrorResponse_ID
    ELSE IF response = "GetFunctionsResponse" THEN GetFunctionsResponse_ID
    ELSE IF response = "SetMassStorageResponse" THEN SetMassStorageResponse_ID
    ELSE GetMassStorageResponse_ID

\* The response variant that answers a request variant with Ok.
ResponseOf(type) ==
    IF type = "GetFunctions" THEN "GetFunctionsResponse"
    ELSE IF type = "SetMassStorage" THEN "SetMassStorageResponse"
    ELSE "GetMassStorageResponse"

\* One ancillary (control) message as recvmsg delivers it.
Cmsg(kind, nfds) == [kind |-> kind, nfds |-> nfds]

\* The ancillary data that may come with the byte of a device: none, one
\* descriptor, two descriptors, credentials, two messages.
Ancillaries ==
    << <<>>,
       <<Cmsg("ScmRights", 1)>>,
       <<Cmsg("ScmRights", 2)>>,
       <<Cmsg("ScmCredentials", 0)>>,
       <<Cmsg("ScmRights", 1), Cmsg("ScmRights", 1)>> >>

\* A receive_fds that does not count the descriptors of the message.
recvmsg_fds_uncounted(bytes, anc, num_fds) ==
    IF num_fds = 0 THEN "ok"
    ELSE IF bytes = 0 THEN "UnexpectedEof"
    ELSE IF anc = <<>> THEN "InvalidData"
    ELSE IF Len(anc) > 1 THEN "InvalidData"
    ELSE IF anc[1].kind # "ScmRights" THEN "InvalidData"
    ELSE "ok"

\* receive_fds on what recvmsg delivered: `bytes` bytes of data and the
\* control messages `anc`.
recvmsg_fds(bytes, anc, num_fds) ==
    IF num_fds = 0 THEN "ok"
    ELSE IF bytes = 0 THEN "UnexpectedEof"
    ELSE IF anc = <<>> THEN "InvalidData"
    ELSE IF Len(anc) > 1 THEN "InvalidData"
    ELSE IF anc[1].kind # "ScmRights" THEN "InvalidData"
    ELSE IF anc[1].nfds # num_fds THEN "InvalidData"
    ELSE "ok"

\* The worker of every connection has just been spawned.
InitConnection ==
    /\ gadget = CleanGadget
    /\ fds = [n \in {} |-> "dir"]
    /\ lock = 0
    /\ pc = [w \in Workers |-> "accepted"]
    /\ req = [w \in Workers |-> NoRequest]
    /\ loc = [w \in Workers |-> NoLocals]
    /\ resp = [w \in Workers |-> "none"]
    /\ halStopped = {}
    /\ trace = [w \in Workers |-> <<>>]
    /\ last = [result |-> "none", devices |-> <<>>]
    /\ stream = [w \in Workers |-> <<>>]
    /\ proc = Serving
    /\ wire = NoWire
    /\ policy = NoPolicy

\* The variables a step of handle_client outside the handlers leaves alone.
handlerVars == <<gadget, fds, lock, req, loc, resp, halStopped, trace, last, proc, wire, policy>>

Heard(w, events) == stream' = [stream EXCEPT ![w] = @ \o events]

\* if ucred.pid == getpid() { error!; return }
PeerCred(w) ==
    /\ pc[w] = "accepted"
    /\ \E peer \in {"self", "other"} :
        /\ Heard(w, <<Event("peer", -1, "", peer)>>)
        /\ pc' = [pc EXCEPT ![w] = IF peer = "self" THEN "closed" ELSE "check_selinux"]
    /\ UNCHANGED handlerVars

\* check_selinux: File::open(SELINUX_ENFORCE) and check_fs_magic.
EnforceOpen(w) ==
    /\ pc[w] = "check_selinux"
    /\ \E io \in IoOutcomes :
        IF io = "ok"
        THEN pc' = [pc EXCEPT ![w] = "read_enforce"] /\ UNCHANGED stream
        ELSE /\ pc' = [pc EXCEPT ![w] = "closed"]
             /\ Heard(w, <<Event("enforce", -1, "", "err")>>)
    /\ UNCHANGED handlerVars

\* What reading the first byte of the enforcement leaf gives: a byte, or "".
EnforceValues == {"0", "1", ""}

\* value != b'1'
Enforcing(value) == value = "1"

\* check_selinux: file.read_u8()?; if value != b'1' { bail }
EnforceRead(w) ==
    /\ pc[w] = "read_enforce"
    /\ \E value \in EnforceValues :
        /\ Heard(w, <<Event("enforce", -1, value, IF value = "" THEN "err" ELSE "ok")>>)
        /\ pc' = [pc EXCEPT ![w] = IF Enforcing(value) THEN "self_connect" ELSE "closed"]
    /\ UNCHANGED handlerVars

\* What UnixStream::connect_addr(&socket_addr()) gives.
ConnectOutcomes == {"ok", "PermissionDenied", "err"}

\* A check that passes whenever the self-connection fails.
SelfConnectRefusedAnyError(outcome) == outcome # "ok"

\* The match on the self-connection: only PermissionDenied passes.
SelfConnectRefused(outcome) == outcome = "PermissionDenied"

\* check_selinux: the connection to the service's own address.
SelfConnect(w) ==
    /\ pc[w] = "self_connect"
    /\ \E outcome \in ConnectOutcomes :
        /\ Heard(w, <<Event("connect", -1, "", outcome)>>)
        /\ pc' = [pc EXCEPT ![w] = IF SelfConnectRefused(outcome) THEN "negotiate" ELSE "closed"]
    /\ UNCHANGED handlerVars

\* A negotiation that accepts every version.
SupportedAny(client_version) == TRUE

\* client_version != message::PROTOCOL_VERSION
Supported(client_version) == client_version = PROTOCOL_VERSION

\* negotiate_protocol: stream.read_u8()
ReadVersion(w) ==
    /\ pc[w] = "negotiate"
    /\ \/ /\ Heard(w, <<Event("read", -1, "version", "UnexpectedEof")>>)
          /\ pc' = [pc EXCEPT ![w] = "closed"]
       \/ \E v \in VersionBytes :
            /\ Heard(w, <<Event("read", v, "version", "ok")>>)
            /\ pc' = [pc EXCEPT ![w] = IF Supported(v) THEN "ack" ELSE "reject"]
    /\ UNCHANGED handlerVars

\* negotiate_protocol: stream.write_u8(0)?; bail, or stream.write_u8(1)?
WriteAck(w) ==
    /\ pc[w] \in {"ack", "reject"}
    /\ \E io \in IoOutcomes :
        /\ Heard(w, <<Event("write", IF pc[w] = "ack" THEN 1 ELSE 0, "ack", io)>>)
        /\ pc' = [pc EXCEPT ![w] = IF pc[w] = "ack" /\ io = "ok" THEN "recv" ELSE "closed"]
    /\ UNCHANGED handlerVars

\* The requests read in full on the connection of w so far.
RequestsRead(w) ==
    LET isRequest(e) == e.op = "read" /\ e.s = "request" /\ e.ret = "ok"
    IN  Len(SelectSeq(stream[w], isRequest))

\* Request::from_socket gets no tag byte: the peer has closed the connection.
RecvEof(w) ==
    /\ pc[w] = "recv"
    /\ Heard(w, <<Event("read", -1, "request", "UnexpectedEof")>>)
    /\ pc' = [pc EXCEPT ![w] = "closed"]
    /\ UNCHANGED handlerVars

\* Request::from_socket reads a tag that selects a request without a body, or
\* none.
RecvTag(w) ==
    /\ pc[w] = "recv"
    /\ RequestsRead(w) < MaxRequests
    /\ \E id \in TagBytes :
        /\ RequestOf(id) # "SetMassStorage"
        /\ IF RequestOf(id) = "InvalidData"
           THEN /\ Heard(w, <<Event("read", id, "request", "InvalidData")>>)
                /\ pc' = [pc EXCEPT ![w] = "closed"]
                /\ UNCHANGED req
           ELSE /\ Heard(w, <<Event("read", id, "request", "ok")>>)
                /\ pc' = [pc EXCEPT ![w] =
                             IF RequestOf(id) = "GetFunctions" THEN "get_functions"
                             ELSE "get_mass_storage"]
                /\ req' = [req EXCEPT ![w] = [type |-> RequestOf(id), devices |-> <<>>]]
    /\ UNCHANGED <<gadget, fds, lock, loc, resp, halStopped, trace, last, proc, wire, policy>>

\* Request::from_socket reads the tag of SetMassStorage and then the devices:
\* the ancillary data of a device may be malformed, which ends the connection.
RecvSetMassStorage(w) ==
    /\ pc[w] = "recv"
    /\ RequestsRead(w) < MaxRequests
    /\ RequestOf(SetMassStorageRequest_ID) = "SetMassStorage"
    /\ \E r \in ConcRequests, a \in DOMAIN Ancillaries, bytes \in 0..1 :
        LET got == recvmsg_fds(bytes, Ancillaries[a], 1)
            what == IF bytes = 0 THEN "nothing" ELSE "device"
            read == Event("read", SetMassStorageRequest_ID, "request", "ok")
        IN  IF r.devices = <<>>
            THEN /\ a = 1 /\ bytes = 1
                 /\ ReceiveRequest(w, {r})
                 /\ Heard(w, <<read>>)
            ELSE IF got = "ok"
            THEN /\ ReceiveRequest(w, {r})
                 /\ Heard(w, <<Event("read", a, what, "ok"), read>>)
            ELSE /\ Heard(w, <<Event("read", a, what, got)>>)
                 /\ pc' = [pc EXCEPT ![w] = "closed"]
                 /\ UNCHANGED <<gadget, fds, lock, req, loc, resp, halStopped, trace, last>>
    /\ UNCHANGED <<proc, wire, policy>>

\* handle_get_functions_request and the Response made of its result.
GetFunctions(w) ==
    /\ pc[w] = "get_functions"
    /\ \E io \in IoOutcomes :
        resp' = [resp EXCEPT ![w] = IF io = "ok" THEN ResponseOf(req[w].type) ELSE "ErrorResponse"]
    /\ pc' = [pc EXCEPT ![w] = "respond"]
    /\ UNCHANGED <<gadget, fds, lock, req, loc, halStopped, trace, last, aux>>

\* The GetMassStorage handler and the Response made of its result.
GetMassStorage(w) ==
    /\ pc[w] = "get_mass_storage"
    /\ \E io \in IoOutcomes :
        LET got == handle_get_mass_storage_request(gadget)
            ok == io = "ok" /\ \A k \in DOMAIN got : got[k].ret = "ok"
        IN  resp' = [resp EXCEPT ![w] = IF ok THEN ResponseOf(req[w].type) ELSE "ErrorResponse"]
    /\ pc' = [pc EXCEPT ![w] = "respond"]
    /\ UNCHANGED <<gadget, fds, lock, req, loc, halStopped, trace, last, aux>>

\* response.to_socket(&mut stream)?
ConnSend(w) ==
    /\ \E io \in IoOutcomes :
        /\ WriteResponse(w, io)
        /\ Heard(w, <<Event("write", ResponseId(resp[w]), "response", io)>>)
    /\ UNCHANGED <<proc, wire, policy>>

\* One connection from its start, with short requests.
NextConnection ==
    \/ PeerCred(1)
    \/ EnforceOpen(1)
    \/ EnforceRead(1)
    \/ SelfConnect(1)
    \/ ReadVersion(1)
    \/ WriteAck(1)
    \/ RecvEof(1)
    \/ RecvTag(1)
    \/ RecvSetMassStorage(1)
    \/ GetFunctions(1)
    \/ GetMassStorage(1)
    \/ SetMassStorage(1, {1})
    \/ ConnSend(1)

SpecConnection == InitConnection /\ [][NextConnection]_vars

\* The positions of what worker w heard on its connection.
Heards(w) == DOMAIN stream[w]

\* A request read in full, and a response written or attempted.
IsRequest(e) == e.op = "read" /\ e.s = "request" /\ e.ret = "ok"

IsResponse(e) == e.op = "write" /\ e.s = "response"

\* C11: a request that fails in its handler is answered with one ErrorResponse
\* and the worker reads on, so that later requests of the connection are read
\* and answered; an unknown tag or malformed ancillary data ends the
\* connection with nothing written.
FailureAnsweredViolationEnds ==
    \A w \in Workers :
        /\ (pc[w] = "respond" /\ req[w].type = "SetMassStorage") =>
                (resp[w] = "ErrorResponse" <=> last.result = "Err")
        /\ \A k \in Heards(w) :
            LET e == stream[w][k]
            IN  /\ (IsResponse(e) /\ e.n = ErrorResponse_ID /\ e.ret = "ok") =>
                    /\ k > 1 /\ IsRequest(stream[w][k - 1])
                    /\ k = Len(stream[w]) => pc[w] = "recv"
                    /\ k < Len(stream[w]) =>
                        (stream[w][k + 1].op = "read" /\ ~IsResponse(stream[w][k + 1]))
                /\ (e.op = "read" /\ e.ret = "InvalidData") =>
                    /\ k = Len(stream[w])
                    /\ pc[w] = "closed"

\* A reconfiguration failed and was answered with an ErrorResponse, and the
\* next request of the connection was read and answered.
FailureAnsweredWitness ==
    \E w \in Workers : \E k \in Heards(w) :
        /\ k + 2 <= Len(stream[w])
        /\ stream[w][k] = Event("write", ErrorResponse_ID, "response", "ok")
        /\ stream[w][k - 1].n = SetMassStorageRequest_ID
        /\ IsRequest(stream[w][k + 1])
        /\ stream[w][k + 2] = Event("write", GetFunctionsResponse_ID, "response", "ok")

\* The requests read and the responses written on the connection of w.
Exchange(w) ==
    LET isEither(e) == IsRequest(e) \/ IsResponse(e)
    IN  SelectSeq(stream[w], isEither)

\* C12: on a connection requests and responses alternate: one response is
\* sent for a request before the next request is read, and it is of the kind
\* that answers that request, or an ErrorResponse.
Alternation ==
    \A w \in Workers :
        /\ pc[w] = "recv" => Len(Exchange(w)) % 2 = 0
        /\ \A k \in DOMAIN Exchange(w) :
            IF k % 2 = 1 THEN IsRequest(Exchange(w)[k])
            ELSE /\ IsResponse(Exchange(w)[k])
                 /\ Exchange(w)[k].n \in
                        {ErrorResponse_ID, ResponseId(ResponseOf(RequestOf(Exchange(w)[k - 1].n)))}

\* Two requests of different kinds were read and answered in turn.
AlternationWitness ==
    \E w \in Workers :
        /\ Len(Exchange(w)) = 4
        /\ Exchange(w)[1].n = SetMassStorageRequest_ID
        /\ Exchange(w)[2] = Event("write", SetMassStorageResponse_ID, "response", "ok")
        /\ Exchange(w)[3].n = GetFunctionsRequest_ID
        /\ Exchange(w)[4] = Event("write", GetFunctionsResponse_ID, "response", "ok")

\* C14: nothing is read from or written to a connection unless, in this
\* order, the peer was seen not to be the service itself, the enforcement
\* leaf read '1', and the connection to the service's own address was refused
\* with permission-denied; any other end of that connection attempt closes.
ChecksBeforeHandshake ==
    \A w \in Workers : \A k \in Heards(w) :
        LET e == stream[w][k]
        IN  /\ e.op \in {"read", "write"} =>
                /\ k > 3
                /\ stream[w][1] = Event("peer", -1, "", "other")
                /\ stream[w][2] = Event("enforce", -1, "1", "ok")
                /\ stream[w][3] = Event("connect", -1, "", "PermissionDenied")
            /\ (e.op = "connect" /\ e.ret # "PermissionDenied") =>
                /\ k = Len(stream[w])
                /\ pc[w] = "closed"
            /\ (pc[w] \notin {"accepted", "check_selinux", "read_enforce", "self_connect", "closed"}) =>
                Len(stream[w]) >= 3

\* A request was answered on a connection that passed the three checks.
ChecksBeforeHandshakeWitness ==
    \E w \in Workers : \E k \in Heards(w) :
        /\ IsResponse(stream[w][k])
        /\ stream[w][3] = Event("connect", -1, "", "PermissionDenied")

\* C17: a device is received only if its byte comes with exactly one
\* ancillary message, a rights message with exactly one descriptor; anything
\* else is InvalidData and ends the connection with no reconfiguration.
DeviceNeedsOneDescriptor ==
    \A w \in Workers : \A k \in Heards(w) :
        LET e == stream[w][k]
        IN  (e.op = "read" /\ e.s = "device") =>
                /\ e.ret = "ok" <=> Ancillaries[e.n] = <<Cmsg("ScmRights", 1)>>
                /\ e.ret # "ok" =>
                    /\ e.ret = "InvalidData"
                    /\ k = Len(stream[w])
                    /\ pc[w] = "closed"
                    /\ ~InHandler(w)
                    /\ req[w] = NoRequest

\* A device came with two descriptors on a connection that had a request
\* answered before.
DeviceNeedsOneDescriptorWitness ==
    \E w \in Workers : \E k \in Heards(w) :
        /\ stream[w][k] = Event("read", 3, "device", "InvalidData")
        /\ \E j \in Heards(w) : j < k /\ IsResponse(stream[w][j])

(***************************************************************************)
(* message.rs: the wire format.  A byte stream is a sequence of runs: a    *)
(* run is n copies of the byte b, so that a string of 65536 bytes is one   *)
(* run.  A run of one byte may carry the files whose descriptors were sent *)
(* with that byte as SCM_RIGHTS ancillary data.                            *)
(***************************************************************************)
U8_MAX == 255

U16_MAX == 65535

Run(b, n) == [b |-> b, n |-> n, files |-> <<>>]

\* The string of n bytes b.
Str(b, n) == IF n = 0 THEN <<>> ELSE <<Run(b, n)>>

RECURSIVE LenOf(_)
\* buf.len()
LenOf(bytes) == IF bytes = <<>> THEN 0 ELSE Head(bytes).n + LenOf(Tail(bytes))

RECURSIVE Canon(_)
\* The same bytes with adjacent runs of one byte joined.
Canon(bytes) ==
    IF Len(bytes) < 2 THEN bytes
    ELSE LET a == bytes[1]
             b == bytes[2]
         IN  IF a.b = b.b /\ a.files = <<>> /\ b.files = <<>>
             THEN Canon(<<Run(a.b, a.n + b.n)>> \o SubSeq(bytes, 3, Len(bytes)))
             ELSE <<a>> \o Canon(Tail(bytes))

RECURSIVE Take(_, _)
\* read_exact of n bytes: the bytes read and the rest of the stream; not ok
\* when the stream ends first.
Take(bytes, n) ==
    IF n = 0 THEN [ok |-> TRUE, got |-> <<>>, rest |-> bytes]
    ELSE IF bytes = <<>> THEN [ok |-> FALSE, got |-> <<>>, rest |-> <<>>]
    ELSE LET h == Head(bytes)
         IN  IF h.n <= n
             THEN LET t == Take(Tail(bytes), n - h.n)
                  IN  [ok |-> t.ok, got |-> <<h>> \o t.got, rest |-> t.rest]
             ELSE [ok |-> TRUE, got |-> <<[h EXCEPT !.n = n]>>,
                   rest |-> <<[h EXCEPT !.n = h.n - n]>> \o Tail(bytes)]

RECURSIVE Concat(_)
\* The byte streams of a sequence, one after the other.
Concat(parts) ==
    IF parts = <<>> THEN <<>>
    ELSE IF Len(parts) = 1 THEN parts[1]
    ELSE LET half == Len(parts) \div 2
         IN  Concat(SubSeq(parts, 1, half)) \o Concat(SubSeq(parts, half + 1, Len(parts)))

\* What a to_socket wrote, or that it returned an error.
Wrote(bytes) == [ok |-> TRUE, bytes |-> bytes]

\* A to_socket returned an error after it had written the bytes.
Rejected(bytes) == [ok |-> FALSE, bytes |-> bytes]

\* The InvalidInput error of a bound checked before anything is written.
InvalidInput == Rejected(<<>>)

\* Writes that follow one another, each with ?: the bytes of every write up
\* to and including the first that returns an error, and that error.
WriteEach(parts) ==
    LET failed == {k \in DOMAIN parts : ~parts[k].ok}
        upto == IF failed = {} THEN Len(parts)
                ELSE CHOOSE k \in failed : \A j \in failed : k <= j
    IN  [ok |-> failed = {}, bytes |-> Concat([k \in 1..upto |-> parts[k].bytes])]

\* What a from_socket returned and what is left to read, or an error.
Read(val, rest) == [ok |-> TRUE, val |-> val, rest |-> rest]

\* A from_socket returned an error.
ReadFailed == [ok |-> FALSE, val |-> <<>>, rest |-> <<>>]

\* The ? of a read: the error of r, or what comes next with the value read
\* and the rest of the stream.
Try(r, Next_(_, _)) == IF r.ok THEN Next_(r.val, r.rest) ELSE ReadFailed

\* read_exact of n bytes into a buffer.
read_exact(bytes, n) ==
    LET buf == Take(bytes, n)
    IN  IF buf.ok THEN Read(Canon(buf.got), buf.rest) ELSE ReadFailed

write_u8(v) == <<Run(v, 1)>>

\* write_u16::<LittleEndian>
write_u16(v) == <<Run(v % 256, 1), Run(v \div 256, 1)>>

read_u8(bytes) ==
    LET t == Take(bytes, 1)
    IN  IF t.ok THEN Read(t.got[1].b, t.rest) ELSE ReadFailed

\* A read_u16 that takes the first byte for the high one.
read_u16_BigEndian(bytes) ==
    Try(read_u8(bytes), LAMBDA hi, r1 :
        Try(read_u8(r1), LAMBDA lo, r2 : Read(lo + 256 * hi, r2)))

\* read_u16::<LittleEndian>
read_u16(bytes) ==
    Try(read_u8(bytes), LAMBDA lo, r1 :
        Try(read_u8(r1), LAMBDA hi, r2 : Read(lo + 256 * hi, r2)))

\* A write_data that casts the length to u16 without looking at it.
write_data_wrapping(buf) == Wrote(write_u16(LenOf(buf) % (U16_MAX + 1)) \o buf)

\* write_data: the length as u16, then the bytes; an error when the length
\* exceeds u16.
write_data(buf) ==
    IF LenOf(buf) > U16_MAX THEN InvalidInput
    ELSE Wrote(write_u16(LenOf(buf) % (U16_MAX + 1)) \o buf)

\* read_data: a u16 length, then that many bytes.
read_data(bytes) == Try(read_u16(bytes), LAMBDA size, r1 : read_exact(r1, size))

\* bool.into(): 1 for true, 0 for false.
BoolByte(b) == IF b THEN 1 ELSE 0

\* send_fds: one byte 0 with the descriptors as ancillary data; nothing when
\* there are none.
send_fds(files) ==
    IF files = <<>> THEN <<>> ELSE <<[b |-> 0, n |-> 1, files |-> files]>>

\* The control messages recvmsg delivers with a byte.
AncillaryOf(run) ==
    IF run.files = <<>> THEN <<>> ELSE <<Cmsg("ScmRights", Len(run.files))>>

\* A message of the protocol: its variant and the fields of the variants.
Message(type, message, functions, devices) ==
    [type |-> type, message |-> message, functions |-> functions, devices |-> devices]

Plain(type) == Message(type, <<>>, <<>>, <<>>)

\* ErrorResponse::to_socket
ErrorResponse_to_socket(m) == write_data(m.message)

\* String::from_utf8, on strings of one-byte characters.
from_utf8(data) == \A k \in DOMAIN data : data[k].b < 128

\* ErrorResponse::from_socket
ErrorResponse_from_socket(bytes) ==
    Try(read_data(bytes), LAMBDA data, r1 :
        IF from_utf8(data) THEN Read(Message("ErrorResponse", data, <<>>, <<>>), r1)
        ELSE ReadFailed)

RECURSIVE Less(_, _)
\* The order of byte strings, which is the order of the keys of a BTreeMap.
Less(a, b) ==
    IF b = <<>> THEN FALSE
    ELSE IF a = <<>> THEN TRUE
    ELSE LET x == Head(a)
             y == Head(b)
         IN  IF x.b # y.b THEN x.b < y.b
             ELSE IF x.n = y.n THEN Less(Tail(a), Tail(b))
             ELSE IF x.n < y.n
                  THEN Less(Tail(a), <<[y EXCEPT !.n = y.n - x.n]>> \o Tail(b))
                  ELSE Less(<<[x EXCEPT !.n = x.n - y.n]>> \o Tail(a), Tail(b))

\* BTreeMap::insert.  A map is the sequence of its entries in the order of
\* their keys, which is the order its iterator yields them in.
Insert(functions, config, function) ==
    LET lesser == {k \in DOMAIN functions : Less(functions[k].config, config)}
        greater == {k \in DOMAIN functions : Less(config, functions[k].config)}
    IN  [k \in 1..(Cardinality(lesser) + 1 + Cardinality(greater)) |->
            IF k <= Cardinality(lesser) THEN functions[k]
            ELSE IF k = Cardinality(lesser) + 1
                 THEN [config |-> config, function |-> function]
            ELSE functions[Len(functions) - Cardinality(lesser) - Cardinality(greater)
                           + k - 1]]

\* GetFunctionsResponse::to_socket
GetFunctionsResponse_to_socket(m) ==
    IF Len(m.functions) > U8_MAX THEN InvalidInput
    ELSE LET entries == m.functions
             parts == [k \in DOMAIN entries |->
                         WriteEach(<<write_data(entries[k].config),
                                     write_data(entries[k].function)>>)]
         IN  WriteEach(<<Wrote(write_u8(Len(entries) % (U8_MAX + 1)))>> \o parts)

RECURSIVE ReadFunctions(_, _, _)
\* The loop of GetFunctionsResponse::from_socket: n more entries, as the
\* first half of them and then the rest.
ReadFunctions(bytes, n, functions) ==
    IF n = 0 THEN Read(functions, bytes)
    ELSE IF n = 1
    THEN Try(read_data(bytes), LAMBDA config, r1 :
             Try(read_data(r1), LAMBDA function, r2 :
                 Read(Insert(functions, config, function), r2)))
    ELSE Try(ReadFunctions(bytes, n \div 2, functions), LAMBDA first, r1 :
             ReadFunctions(r1, n - n \div 2, first))

\* GetFunctionsResponse::from_socket
GetFunctionsResponse_from_socket(bytes) ==
    Try(read_u8(bytes), LAMBDA count, r1 :
        Try(ReadFunctions(r1, count, <<>>), LAMBDA functions, r2 :
            Read(Message("GetFunctionsResponse", <<>>, functions, <<>>), r2)))

\* MassStorageDevice::to_socket: the descriptor, then the two flags.
MassStorageDevice_to_socket(d) ==
    send_fds(<<d.file>>) \o write_u8(BoolByte(d.cdrom)) \o write_u8(BoolByte(d.ro))

\* receive_fds(stream, 1)?.pop().unwrap(): the file of the one descriptor that
\* comes with the next byte.
receive_fd(bytes) ==
    LET byte == Take(bytes, 1)
    IN  IF byte.ok
        THEN IF recvmsg_fds(1, AncillaryOf(byte.got[1]), 1) = "ok"
             THEN Read(byte.got[1].files[1], byte.rest)
             ELSE ReadFailed
        ELSE ReadFailed

\* MassStorageDevice::from_socket
MassStorageDevice_from_socket(bytes) ==
    Try(receive_fd(bytes), LAMBDA fd, r1 :
        Try(read_u8(r1), LAMBDA cdrom, r2 :
            Try(read_u8(r2), LAMBDA ro, r3 : Read(Device(fd, cdrom # 0, ro # 0), r3))))

\* SetMassStorageRequest::to_socket
SetMassStorageRequest_to_socket(m) ==
    IF Len(m.devices) > U8_MAX THEN InvalidInput
    ELSE Wrote(write_u8(Len(m.devices) % (U8_MAX + 1))
               \o Concat([k \in DOMAIN m.devices |->
                            MassStorageDevice_to_socket(m.devices[k])]))

RECURSIVE ReadDevices(_, _)
\* The loop of SetMassStorageRequest::from_socket: n more devices, as the
\* first half of them and then the rest.
ReadDevices(bytes, n) ==
    IF n = 0 THEN Read(<<>>, bytes)
    ELSE IF n = 1
    THEN Try(MassStorageDevice_from_socket(bytes), LAMBDA device, r1 : Read(<<device>>, r1))
    ELSE Try(ReadDevices(bytes, n \div 2), LAMBDA first, r1 :
             Try(ReadDevices(r1, n - n \div 2), LAMBDA more, r2 : Read(first \o more, r2)))

\* SetMassStorageRequest::from_socket
SetMassStorageRequest_from_socket(bytes) ==
    Try(read_u8(bytes), LAMBDA count, r1 :
        Try(ReadDevices(r1, count), LAMBDA devices, r2 :
            Read(Message("SetMassStorage", <<>>, <<>>, devices), r2)))

\* ActiveMassStorageDevice::to_socket: the path, then the two flags.
ActiveMassStorageDevice_to_socket(d) ==
    WriteEach(<<write_data(d.file), Wrote(write_u8(BoolByte(d.cdrom))),
                Wrote(write_u8(BoolByte(d.ro)))>>)

\* ActiveMassStorageDevice::from_socket
ActiveMassStorageDevice_from_socket(bytes) ==
    Try(read_data(bytes), LAMBDA file, r1 :
        Try(read_u8(r1), LAMBDA cdrom, r2 :
            Try(read_u8(r2), LAMBDA ro, r3 : Read(Device(file, cdrom # 0, ro # 0), r3))))

\* GetMassStorageResponse::to_socket
GetMassStorageResponse_to_socket(m) ==
    IF Len(m.devices) > U8_MAX THEN InvalidInput
    ELSE LET parts == [k \in DOMAIN m.devices |->
                         ActiveMassStorageDevice_to_socket(m.devices[k])]
         IN  WriteEach(<<Wrote(write_u8(Len(m.devices) % (U8_MAX + 1)))>> \o parts)

RECURSIVE ReadActive(_, _)
\* The loop of GetMassStorageResponse::from_socket: n more devices, as the
\* first half of them and then the rest.
ReadActive(bytes, n) ==
    IF n = 0 THEN Read(<<>>, bytes)
    ELSE IF n = 1
    THEN Try(ActiveMassStorageDevice_from_socket(bytes), LAMBDA device, r1 :
             Read(<<device>>, r1))
    ELSE Try(ReadActive(bytes, n \div 2), LAMBDA first, r1 :
             Try(ReadActive(r1, n - n \div 2), LAMBDA more, r2 : Read(first \o more, r2)))

\* GetMassStorageResponse::from_socket
GetMassStorageResponse_from_socket(bytes) ==
    Try(read_u8(bytes), LAMBDA count, r1 :
        Try(ReadActive(r1, count), LAMBDA devices, r2 :
            Read(Message("GetMassStorageResponse", <<>>, <<>>, devices), r2)))

\* The tag byte of a request variant.
RequestId(type) ==
    IF type = "GetFunctions" THEN GetFunctionsRequest_ID
    ELSE IF type = "SetMassStorage" THEN SetMassStorageRequest_ID
    ELSE GetMassStorageRequest_ID

\* Request::to_socket: the tag, then the body of the variant.
Request_to_socket(m) ==
    LET body == IF m.type = "SetMassStorage" THEN SetMassStorageRequest_to_socket(m)
                ELSE Wrote(<<>>)
    IN  WriteEach(<<Wrote(write_u8(RequestId(m.type))), body>>)

\* Request::from_socket: the tag selects the variant that reads the body.
Request_from_socket(bytes) ==
    Try(read_u8(bytes), LAMBDA id, r1 :
        IF RequestOf(id) = "SetMassStorage" THEN SetMassStorageRequest_from_socket(r1)
        ELSE IF RequestOf(id) \in {"GetFunctions", "GetMassStorage"}
             THEN Read(Plain(RequestOf(id)), r1)
        ELSE ReadFailed)

\* A Response::to_socket that writes the tag and the body together, once the
\* body is known to be within the bounds.
Response_to_socket_buffered(m) ==
    LET body == IF m.type = "ErrorResponse" THEN ErrorResponse_to_socket(m)
                ELSE IF m.type = "GetFunctionsResponse" THEN GetFunctionsResponse_to_socket(m)
                ELSE IF m.type = "GetMassStorageResponse"
                     THEN GetMassStorageResponse_to_socket(m)
                ELSE Wrote(<<>>)
    IN  IF body.ok THEN Wrote(write_u8(ResponseId(m.type)) \o body.bytes) ELSE InvalidInput

\* Response::to_socket: stream.write_u8(id)? for the tag, then the to_socket
\* of the variant for the body.
Response_to_socket(m) ==
    LET body == IF m.type = "ErrorResponse" THEN ErrorResponse_to_socket(m)
                ELSE IF m.type = "GetFunctionsResponse" THEN GetFunctionsResponse_to_socket(m)
                ELSE IF m.type = "GetMassStorageResponse"
                     THEN GetMassStorageResponse_to_socket(m)
                ELSE Wrote(<<>>)
    IN  WriteEach(<<Wrote(write_u8(ResponseId(m.type))), body>>)

\* Response::from_socket: the tag selects the variant that reads the body.
Response_from_socket(bytes) ==
    Try(read_u8(bytes), LAMBDA id, r1 :
        IF id = ErrorResponse_ID THEN ErrorResponse_from_socket(r1)
        ELSE IF id = GetFunctionsResponse_ID THEN GetFunctionsResponse_from_socket(r1)
        ELSE IF id = SetMassStorageResponse_ID
             THEN Read(Plain("SetMassStorageResponse"), r1)
        ELSE IF id = GetMassStorageResponse_ID THEN GetMassStorageResponse_from_socket(r1)
        ELSE ReadFailed)

(***************************************************************************)
(* client.rs: one run of the client against a service, and the service's   *)
(* reading of what the client wrote.  `wire` holds where the exchange is,  *)
(* the acknowledgement the client read, the message last written, what its *)
(* to_socket returned and what the from_socket of the other side returned. *)
(***************************************************************************)
Exchanging(at, ack, msg, sent, got) ==
    [pc |-> at, ack |-> ack, msg |-> msg, sent |-> sent, got |-> got]

Nothing == Plain("none")

\* The acknowledgement bytes a service may answer the version with; -1 when
\* the connection ends instead.
AckBytes == -1..2

\* client.rs negotiate_protocol, after the version is written: match ack
negotiate_protocol(ack) ==
    IF ack = -1 THEN "failed" ELSE IF ack = 1 THEN "ok" ELSE "failed"

\* The lengths of the strings sent: none, one byte, the longest a u16 length
\* frames, and one byte more.
StringLens == {0, 1, U16_MAX, U16_MAX + 1}

\* The sizes of the collections sent: the small ones, the largest a u8 count
\* frames, and one more.
Sizes == (0..MaxDevices) \cup {U8_MAX, U8_MAX + 1}

\* The devices a and b in turn, n of them.
Alternating(n, a, b) == [k \in 1..n |-> IF k % 2 = 1 THEN a ELSE b]

\* The devices the service reports as active.
ActiveKinds ==
    {Device(Str(97, 1), TRUE, TRUE), Device(<<>>, FALSE, TRUE),
     Device(Str(98, U16_MAX), FALSE, FALSE), Device(Str(98, U16_MAX + 1), FALSE, FALSE)}

\* The map of n functions: the configs are the strings of 1..n bytes.
FunctionsOf(n, len) ==
    [k \in 1..n |-> [config |-> Str(107, k), function |-> Str(102, len)]]

WireRequests ==
    {Plain("GetFunctions"), Plain("GetMassStorage")}
    \cup {Message("SetMassStorage", <<>>, <<>>, Alternating(n, a, b)) :
            n \in Sizes, a \in DeviceKinds, b \in DeviceKinds}

WireResponses ==
    {Plain("SetMassStorageResponse")}
    \cup {Message("ErrorResponse", Str(97, n), <<>>, <<>>) : n \in StringLens}
    \cup {Message("ErrorResponse", <<Run(97, 1), Run(0, 2), Run(98, 1)>>, <<>>, <<>>)}
    \cup {Message("GetFunctionsResponse", <<>>, FunctionsOf(n, len), <<>>) :
            n \in Sizes, len \in StringLens}
    \cup {Message("GetMassStorageResponse", <<>>, <<>>, Alternating(n, a, b)) :
            n \in Sizes, a \in ActiveKinds, b \in ActiveKinds}

\* The messages whose strings and collections are within the framing bounds.
Framable(m) ==
    /\ LenOf(m.message) <= U16_MAX
    /\ Len(m.functions) <= U8_MAX
    /\ \A k \in DOMAIN m.functions :
         /\ LenOf(m.functions[k].config) <= U16_MAX
         /\ LenOf(m.functions[k].function) <= U16_MAX
    /\ Len(m.devices) <= U8_MAX
    /\ \A k \in DOMAIN m.devices :
         m.type = "GetMassStorageResponse" => LenOf(m.devices[k].file) <= U16_MAX

wireVars == <<gadget, fds, lock, pc, req, loc, resp, halStopped, trace, last, stream, proc, policy>>

\* The client is about to connect; the service is as in InitConnection.
InitWire ==
    /\ gadget = CleanGadget
    /\ fds = [n \in {} |-> "dir"]
    /\ lock = 0
    /\ pc = [w \in Workers |-> "accepted"]
    /\ req = [w \in Workers |-> NoRequest]
    /\ loc = [w \in Workers |-> NoLocals]
    /\ resp = [w \in Workers |-> "none"]
    /\ halStopped = {}
    /\ trace = [w \in Workers |-> <<>>]
    /\ last = [result |-> "none", devices |-> <<>>]
    /\ stream = [w \in Workers |-> <<>>]
    /\ proc = Serving
    /\ wire = Exchanging("connect", -1, Nothing, Wrote(<<>>), Read(Nothing, <<>>))
    /\ policy = NoPolicy

\* subcommand_client: connect, then negotiate_protocol(&mut stream)?
ClientNegotiate ==
    /\ wire.pc = "connect"
    /\ \E ack \in AckBytes :
         wire' = Exchanging(IF negotiate_protocol(ack) = "ok" THEN "request" ELSE "failed",
                            ack, Nothing, Wrote(<<>>), Read(Nothing, <<>>))
    /\ UNCHANGED wireVars

\* subcommand_client: request.to_socket(&mut stream)?
ClientSend(requests) ==
    /\ wire.pc = "request"
    /\ \E m \in requests :
         LET sent == Request_to_socket(m)
         IN  wire' = [wire EXCEPT !.pc = IF sent.ok THEN "sent" ELSE "failed",
                                  !.msg = m, !.sent = sent]
    /\ UNCHANGED wireVars

\* handle_client: Request::from_socket(&mut stream)
ServiceReceive ==
    /\ wire.pc = "sent"
    /\ wire' = [wire EXCEPT !.pc = "received", !.got = Request_from_socket(wire.sent.bytes)]
    /\ UNCHANGED wireVars

\* handle_client: handle_request(&request)
ServiceHandle ==
    /\ wire.pc = "received"
    /\ wire' = Exchanging("respond", wire.ack, Nothing, Wrote(<<>>), Read(Nothing, <<>>))
    /\ UNCHANGED wireVars

\* handle_client: response.to_socket(&mut stream)?
ServiceSend ==
    /\ wire.pc = "respond"
    /\ \E m \in WireResponses :
         LET sent == Response_to_socket(m)
         IN  wire' = [wire EXCEPT !.pc = IF sent.ok THEN "responded" ELSE "unsent",
                                  !.msg = m, !.sent = sent]
    /\ UNCHANGED wireVars

\* subcommand_client: Response::from_socket(&mut stream)
ClientReceive ==
    /\ wire.pc = "responded"
    /\ wire' = [wire EXCEPT !.pc = "done", !.got = Response_from_socket(wire.sent.bytes)]
    /\ UNCHANGED wireVars

NextWire ==
    \/ ClientNegotiate
    \/ ClientSend(WireRequests)
    \/ ServiceReceive
    \/ ServiceHandle
    \/ ServiceSend
    \/ ClientReceive

SpecWire == InitWire /\ [][NextWire]_vars

\* A message has been written in full and read by the other side.
Delivered == wire.pc \in {"received", "done"}

\* A to_socket has returned an error for the message.
Refused == wire.pc \in {"failed", "unsent"} /\ wire.msg # Nothing

\* The bytes of a stream that carry descriptors.
WithFiles(bytes) == {k \in DOMAIN bytes : bytes[k].files # <<>>}

\* C15: every request and response within the framing bounds is written,
\* and what the other side reads from the bytes written is the message
\* itself, with nothing left over: the strings byte for byte and the devices
\* in their order.  A SetMassStorage request is written as its tag, its
\* count, and for each device the byte that carries exactly the one
\* descriptor of the device followed by the two flags as 0 or 1.
RoundTrip ==
    /\ Refused => ~Framable(wire.msg)
    /\ Delivered =>
         /\ wire.got.ok
         /\ wire.got.val = wire.msg
         /\ wire.got.rest = <<>>
    /\ Delivered /\ wire.msg.type = "SetMassStorage" =>
         LET bytes == wire.sent.bytes
             devices == wire.msg.devices
         IN  /\ Len(bytes) = 2 + 3 * Len(devices)
             /\ WithFiles(bytes) = {3 * k : k \in DOMAIN devices}
             /\ \A k \in DOMAIN devices :
                  /\ bytes[3 * k].files = <<devices[k].file>>
                  /\ bytes[3 * k + 1] = Run(BoolByte(devices[k].cdrom), 1)
                  /\ bytes[3 * k + 2] = Run(BoolByte(devices[k].ro), 1)

\* The client has read a response of the largest count of devices, one of
\* them with a path of the greatest length.
RoundTripWitness ==
    /\ wire.pc = "done"
    /\ wire.msg.type = "GetMassStorageResponse"
    /\ Len(wire.msg.devices) = U8_MAX
    /\ \E k \in DOMAIN wire.msg.devices : LenOf(wire.msg.devices[k].file) = U16_MAX
    /\ wire.msg.devices[1] # wire.msg.devices[2]

\* C16: a message with a collection of more than 255 items or a string of
\* more than 65535 bytes is not written: its to_socket returns an error, so
\* a SetMassStorage request of 256 devices fails in the client; and no
\* message read exceeds the bounds.
FramingBounds ==
    /\ wire.msg # Nothing /\ ~Framable(wire.msg) =>
         /\ Refused
         /\ ~wire.sent.ok
    /\ Delivered /\ wire.got.ok => Framable(wire.got.val)

\* The client has failed to send a SetMassStorage request of 256 devices.
FramingBoundsWitness ==
    /\ wire.pc = "failed"
    /\ wire.msg.type = "SetMassStorage"
    /\ Len(wire.msg.devices) = U8_MAX + 1

\* The tag of the message whose to_socket returned an error.
RefusedTag ==
    IF wire.pc = "failed" THEN RequestId(wire.msg.type) ELSE ResponseId(wire.msg.type)

\* What the other side's from_socket makes of the bytes a refused to_socket
\* left on the stream before the connection ended.
RefusedDecode ==
    IF wire.pc = "failed" THEN Request_from_socket(wire.sent.bytes)
    ELSE Response_from_socket(wire.sent.bytes)

\* The message's collection has more items than a u8 counts, or its only
\* string more bytes than a u16 counts.
RefusedAtOnce ==
    \/ Len(wire.msg.devices) > U8_MAX
    \/ Len(wire.msg.functions) > U8_MAX
    \/ LenOf(wire.msg.message) > U16_MAX

\* C37 as stated: when the encoding of a message fails because a bound is
\* exceeded, no byte of the message, its type tag included, has been written
\* to the stream.
RefusedWritesNothing == Refused => wire.sent.bytes = <<>>

\* C37: when the encoding of a message fails because a bound is exceeded,
\* the type tag of the message has been written to the stream, and with it
\* the fields that come before the rejected one: the tag alone when the
\* collection has more than 255 items or the message's string more than
\* 65535 bytes.  No byte of the rejected string is written, no descriptor is
\* sent, and what is written is not a whole message: the other side's decode
\* of it fails at the end of the stream.
RefusedWritesOpenFrame ==
    Refused =>
        /\ wire.sent.bytes # <<>>
        /\ Head(wire.sent.bytes) = Run(RefusedTag, 1)
        /\ RefusedAtOnce => wire.sent.bytes = write_u8(RefusedTag)
        /\ \A k \in DOMAIN wire.sent.bytes : wire.sent.bytes[k].n <= U16_MAX
        /\ WithFiles(wire.sent.bytes) = {}
        /\ ~RefusedDecode.ok

\* The service has failed to send a GetFunctionsResponse on a function name
\* of 65536 bytes, after it wrote the tag, the count and the config's name.
RefusedWritesOpenFrameWitness ==
    /\ wire.pc = "unsent"
    /\ wire.msg.type = "GetFunctionsResponse"
    /\ Len(wire.sent.bytes) > 2

(***************************************************************************)
(* The version handshake: the service's side on a connection of any peer,  *)
(* and the client's side against any service.                              *)
(***************************************************************************)
NextHandshake ==
    \/ PeerCred(1)
    \/ EnforceOpen(1)
    \/ EnforceRead(1)
    \/ SelfConnect(1)
    \/ ReadVersion(1)
    \/ WriteAck(1)
    \/ RecvEof(1)
    \/ RecvTag(1)
    \/ GetFunctions(1)
    \/ GetMassStorage(1)
    \/ ConnSend(1)
    \/ ClientNegotiate
    \/ ClientSend({Plain("GetFunctions"), Plain("GetMassStorage")})

SpecHandshake == InitWire /\ [][NextHandshake]_vars

\* The reads and writes of the service on the connection of w, in order.
OnStream(w) ==
    LET onStream(e) == e.op \in {"read", "write"}
    IN  SelectSeq(stream[w], onStream)

\* C13: the first thing the service does on a connection is to read one
\* version byte, and it reads no other; what it writes next is the
\* acknowledgement, 1 if the version is 1 and 0 otherwise; after a version
\* other than 1 it reads no request, writes no response and has closed the
\* connection once the 0 is written.  The client goes on to send a request
\* only after it has read the acknowledgement 1: on any other byte, or none,
\* it fails and has sent nothing.
VersionHandshake ==
    /\ \A w \in {1} :
         LET io == OnStream(w)
         IN  /\ io # <<>> => io[1].op = "read" /\ io[1].s = "version"
             /\ \A k \in DOMAIN io : io[k].s = "version" => k = 1
             /\ \A k \in DOMAIN io : io[k].s = "ack" <=> (k = 2 /\ io[k].op = "write")
             /\ Len(io) >= 2 =>
                  /\ io[1].ret = "ok"
                  /\ io[2].n = (IF io[1].n = 1 THEN 1 ELSE 0)
             /\ Len(io) >= 2 /\ io[1].n # 1 => Len(io) = 2 /\ pc[w] = "closed"
             /\ io # <<>> /\ (io[1].ret # "ok" \/ io[1].n # 1) =>
                  /\ pc[w] \in {"reject", "closed"}
                  /\ req[w] = NoRequest
                  /\ resp[w] = "none"
             /\ Len(io) >= 3 => io[2].ret = "ok" /\ io[2].n = 1
    /\ wire.pc \in {"request", "sent"} => wire.ack = 1
    /\ wire.pc = "sent" => wire.sent.ok /\ wire.sent.bytes # <<>>
    /\ wire.pc # "connect" /\ wire.ack # 1 =>
         /\ wire.pc = "failed"
         /\ wire.msg = Nothing
         /\ wire.sent.bytes = <<>>

\* The service has answered version 2 with 0 and closed, and the client has
\* failed on an acknowledgement that is neither 0 nor 1.
VersionHandshakeWitness ==
    /\ Len(OnStream(1)) = 2
    /\ OnStream(1)[1].n = 2
    /\ OnStream(1)[2].n = 0
    /\ OnStream(1)[2].ret = "ok"
    /\ pc[1] = "closed"
    /\ wire.pc = "failed"
    /\ wire.ack = 2

(***************************************************************************)
(* daemon.rs: the start of the service, drop_privileges and the bind of    *)
(* the listening socket.  `proc` is the process as the kernel holds it:    *)
(* its ids, supplementary groups, keep-capabilities flag and capability    *)
(* sets; the calls it has made with success; whether the socket is bound;  *)
(* and what it was when it started.                                        *)
(***************************************************************************)
MaxOtherIds == 1

ROOT == 0

SYSTEM == 1000

\* The ids a process may start with: root, system, and others.
Ids == {ROOT, SYSTEM} \cup {SYSTEM + k : k \in 1..MaxOtherIds}

Capabilities == {"CHOWN", "SETGID", "SETUID", "SYS_ADMIN"}

CapabilitySets(effective, permitted, inheritable) ==
    [effective |-> effective, permitted |-> permitted, inheritable |-> inheritable]

\* What the process is to the kernel.
Identity(uid, gid, groups, keep, caps) ==
    [uid |-> uid, gid |-> gid, groups |-> groups, keep |-> keep, caps |-> caps]

IdentityOf(p) == Identity(p.uid, p.gid, p.groups, p.keep, p.caps)

\* A process at a point of subcommand_daemon.
Process(at, id, calls, bound, start) ==
    [pc |-> at, uid |-> id.uid, gid |-> id.gid, groups |-> id.groups, keep |-> id.keep,
     caps |-> id.caps, calls |-> calls, bound |-> bound, start |-> start]

\* The processes exec may start: any ids, with or without a supplementary
\* group, any effective capabilities, permitted ones that include them.
Starts ==
    {Identity(uid, gid, groups, FALSE,
              CapabilitySets(effective, effective \cup more, inheritable)) :
        uid \in Ids, gid \in Ids, groups \in {{}, {3003}},
        effective \in SUBSET Capabilities, more \in {{}, {"CHOWN"}},
        inheritable \in {{}, {"CHOWN"}}}

\* A check that takes the user id alone for the identity of root.
IsRootUser(uid, gid) == uid = ROOT

\* real_uid == Uid::ROOT && real_gid == Gid::ROOT
IsRoot(uid, gid) == uid = ROOT /\ gid = ROOT

\* real_uid == system_uid && real_gid == system_gid
IsSystem(uid, gid) == uid = SYSTEM /\ gid = SYSTEM

\* A capability set that keeps what the process is permitted.
capability_set_kept(p) == CapabilitySets(p.caps.permitted, p.caps.permitted, {})

\* let capability_set = CapabilitySets { effective: CHOWN, permitted: CHOWN,
\* inheritable: empty }
capability_set(p) == CapabilitySets({"CHOWN"}, {"CHOWN"}, {})

\* The kernel on a change of all user ids from root to another: effective
\* capabilities are cleared, and permitted ones too unless keep-capabilities
\* is set.
AfterUidChange(p, uid) ==
    IF p.uid = ROOT /\ uid # ROOT
    THEN CapabilitySets({}, IF p.keep THEN p.caps.permitted ELSE {}, p.caps.inheritable)
    ELSE p.caps

\* The kernel on capset: the permitted set may only shrink, the effective set
\* lies within the new permitted set.
CapsetAllowed(p, new) ==
    /\ new.permitted \subseteq p.caps.permitted
    /\ new.effective \subseteq new.permitted
    /\ new.inheritable \subseteq p.caps.inheritable \cup p.caps.permitted

startVars == <<gadget, fds, lock, pc, req, loc, resp, halStopped, trace, last, stream, wire, policy>>

\* The process has been started and is about to call drop_privileges.
InitStartup ==
    /\ gadget = CleanGadget
    /\ fds = [n \in {} |-> "dir"]
    /\ lock = 0
    /\ pc = [w \in Workers |-> "recv"]
    /\ req = [w \in Workers |-> NoRequest]
    /\ loc = [w \in Workers |-> NoLocals]
    /\ resp = [w \in Workers |-> "none"]
    /\ halStopped = {}
    /\ trace = [w \in Workers |-> <<>>]
    /\ last = [result |-> "none", devices |-> <<>>]
    /\ stream = [w \in Workers |-> <<>>]
    /\ \E id \in Starts : proc = Process("drop_privileges", id, <<>>, FALSE, id)
    /\ wire = NoWire
    /\ policy = NoPolicy

\* The process after a call: at the next point when the call succeeded, with
\* the identity the call gave it; failed, as it was, when it did not.
Called(name, ok, next, id) ==
    proc' = IF ok
            THEN Process(next, id, Append(proc.calls, name), proc.bound, proc.start)
            ELSE [proc EXCEPT !.pc = "failed"]

\* drop_privileges: getuid, getgid and the branch on them.
CheckIds ==
    /\ proc.pc = "drop_privileges"
    /\ proc' = [proc EXCEPT !.pc = IF IsSystem(proc.uid, proc.gid) THEN "capabilities"
                                   ELSE IF IsRoot(proc.uid, proc.gid)
                                        THEN "set_keep_capabilities"
                                   ELSE "refused"]
    /\ UNCHANGED startVars

\* capabilities(None)? and if !capability_set.effective.contains(CHOWN) { bail }
QueryCapabilities ==
    /\ proc.pc = "capabilities"
    /\ \E io \in IoOutcomes :
         proc' = [proc EXCEPT !.pc = IF io # "ok" THEN "failed"
                                      ELSE IF "CHOWN" \in proc.caps.effective
                                           THEN "set_capabilities"
                                      ELSE "refused"]
    /\ UNCHANGED startVars

\* set_keep_capabilities(true)?
SetKeepCapabilities ==
    /\ proc.pc = "set_keep_capabilities"
    /\ \E io \in IoOutcomes :
         Called("set_keep_capabilities", io = "ok", "set_thread_groups",
                [IdentityOf(proc) EXCEPT !.keep = TRUE])
    /\ UNCHANGED startVars

\* set_thread_groups(&[])?, which the kernel allows with SETGID
SetThreadGroups ==
    /\ proc.pc = "set_thread_groups"
    /\ \E io \in IoOutcomes :
         Called("set_thread_groups", io = "ok" /\ "SETGID" \in proc.caps.effective,
                "set_thread_res_gid", [IdentityOf(proc) EXCEPT !.groups = {}])
    /\ UNCHANGED startVars

\* set_thread_res_gid(system_gid, system_gid, system_gid)?
SetThreadResGid ==
    /\ proc.pc = "set_thread_res_gid"
    /\ \E io \in IoOutcomes :
         Called("set_thread_res_gid", io = "ok" /\ "SETGID" \in proc.caps.effective,
                "set_thread_res_uid", [IdentityOf(proc) EXCEPT !.gid = SYSTEM])
    /\ UNCHANGED startVars

\* set_thread_res_uid(system_uid, system_uid, system_uid)?
SetThreadResUid ==
    /\ proc.pc = "set_thread_res_uid"
    /\ \E io \in IoOutcomes :
         Called("set_thread_res_uid", io = "ok" /\ "SETUID" \in proc.caps.effective,
                "set_capabilities",
                [IdentityOf(proc) EXCEPT !.uid = SYSTEM,
                                         !.caps = AfterUidChange(proc, SYSTEM)])
    /\ UNCHANGED startVars

\* set_capabilities(None, capability_set)?
SetCapabilities ==
    /\ proc.pc = "set_capabilities"
    /\ \E io \in IoOutcomes :
         Called("set_capabilities", io = "ok" /\ CapsetAllowed(proc, capability_set(proc)),
                "bind_addr", [IdentityOf(proc) EXCEPT !.caps = capability_set(proc)])
    /\ UNCHANGED startVars

\* subcommand_daemon: UnixListener::bind_addr(&socket_addr())?
BindAddr ==
    /\ proc.pc = "bind_addr"
    /\ \E io \in IoOutcomes :
         proc' = IF io = "ok"
                 THEN [proc EXCEPT !.pc = "serving", !.bound = TRUE,
                                   !.calls = Append(@, "bind_addr")]
                 ELSE [proc EXCEPT !.pc = "failed"]
    /\ UNCHANGED startVars

NextStartup ==
    \/ CheckIds
    \/ QueryCapabilities
    \/ SetKeepCapabilities
    \/ SetThreadGroups
    \/ SetThreadResGid
    \/ SetThreadResUid
    \/ SetCapabilities
    \/ BindAddr

SpecStartup == InitStartup /\ [][NextStartup]_vars

\* The calls of the root path of drop_privileges and the bind, in the order
\* of the code.
RootPath ==
    <<"set_keep_capabilities", "set_thread_groups", "set_thread_res_gid",
      "set_thread_res_uid", "set_capabilities", "bind_addr">>

\* s is the beginning of t.
IsPrefix(s, t) == Len(s) <= Len(t) /\ s = SubSeq(t, 1, Len(s))

\* The process was started as neither root:root nor system:system with
\* CAP_CHOWN effective.
StartedAsOther ==
    /\ ~(proc.start.uid = 0 /\ proc.start.gid = 0)
    /\ ~(proc.start.uid = 1000 /\ proc.start.gid = 1000
         /\ "CHOWN" \in proc.start.caps.effective)

MaxRules == 2

n_source_type == "untrusted_app"

n_source_uffd_type == "untrusted_app_userfaultfd"

n_target_type == "msd_app"

n_target_uffd_type == "msd_app_userfaultfd"

n_daemon_type == "msd_daemon"

\* No type: the None of an Option.
None == "None"

Rule(source, target, class, kind, perm) ==
    [source |-> source, target |-> target, class |-> class, kind |-> kind, perm |-> perm]

\* The types of the policies read, apart from the ones only named in rules
\* the patcher adds.
SourceTypes ==
    {n_source_type, n_source_uffd_type, "hal_usb_gadget_default", "shell"}

\* The types the patcher names in the rules it adds.
NamedTypes ==
    {"configfs", "domain", "fuse", "hal_usb_gadget_impl", "init", "kernel",
     "mediaprovider", "mediaprovider_app", "selinuxfs", "system_file", "usb_control_prop"}

\* The rules a policy read may hold: allow and dontaudit rules between its
\* types, and the rule that lets the HAL connect to sockets of its own.
SourceRules ==
    {Rule(source, target, "file", kind, "read") :
        source \in SourceTypes, target \in SourceTypes, kind \in {"allow", "dontaudit"}}
    \cup {Rule("hal_usb_gadget_default", "hal_usb_gadget_default", "unix_stream_socket",
               "allow", "connectto")}

RECURSIVE RuleSets(_)
\* The sets of at most n of the rules.
RuleSets(n) ==
    IF n = 0 THEN {{}}
    ELSE {rules \cup more : rules \in RuleSets(n - 1),
                            more \in {{}} \cup {{r} : r \in SourceRules}}

\* A closure that substitutes the clone for the source of a rule only.
clone_source_only(source_type, target_type) ==
    IF source_type = n_source_type THEN <<n_target_type, target_type>>
    ELSE IF source_type = n_source_uffd_type THEN <<n_target_uffd_type, target_type>>
    ELSE None

\* The closure of the first copy_avtab_rules: the clone in the place of the
\* donor, None when neither place holds a donor.
clone(source_type, target_type) ==
    LET new_source_type == IF source_type = n_source_type THEN n_target_type
                           ELSE IF source_type = n_source_uffd_type THEN n_target_uffd_type
                           ELSE None
        new_target_type == IF target_type = n_source_type THEN n_target_type
                           ELSE IF target_type = n_source_uffd_type THEN n_target_uffd_type
                           ELSE None
    IN  IF new_source_type = None /\ new_target_type = None THEN None
        ELSE <<IF new_source_type = None THEN source_type ELSE new_source_type,
               IF new_target_type = None THEN target_type ELSE new_target_type>>

\* The closure of the second copy_avtab_rules: the rules of the HAL on itself
\* become rules of the service on itself.
self_rules(source_type, target_type) ==
    IF source_type = "hal_usb_gadget_default" /\ target_type = "hal_usb_gadget_default"
    THEN <<n_daemon_type, n_daemon_type>>
    ELSE None

\* PolicyDb::copy_avtab_rules with the closure clone.
copy_avtab_rules_clone(rules) ==
    rules \cup {[r EXCEPT !.source = clone(r.source, r.target)[1],
                          !.target = clone(r.source, r.target)[2]] :
                  r \in {x \in rules : clone(x.source, x.target) # None}}

\* PolicyDb::copy_avtab_rules with the closure self_rules.
copy_avtab_rules_self(rules) ==
    rules \cup {[r EXCEPT !.source = self_rules(r.source, r.target)[1],
                          !.target = self_rules(r.source, r.target)[2]] :
                  r \in {x \in rules : self_rules(x.source, x.target) # None}}

\* One call of set_rule: source, target, class, permission, RuleAction.
SetRule(source, target, class, perm, action) ==
    [rule |-> Rule(source, target, class, "allow", perm), action |-> action]

\* The rules between a source and a target of one class and action.
SetRules(source, target, class, perms, action) ==
    {SetRule(source, target, class, perm, action) : perm \in perms}

\* The table without the call that blocks the service from connecting to
\* itself.
ServiceRulesNoSelfDeny(adb, t_hal_usb_gadget_impl) ==
    SetRules(n_target_type, n_daemon_type, "unix_stream_socket", {"connectto"}, "Allow")

\* The table of a patcher that installs its rules in a policy only once.
ServiceRulesFirstRunOnly(adb, t_hal_usb_gadget_impl) ==
    IF policy.run = 1
    THEN SetRules(n_daemon_type, n_daemon_type, "unix_stream_socket", {"connectto"}, "Deny")
         \cup SetRules(n_target_type, n_daemon_type, "unix_stream_socket", {"connectto"},
                       "Allow")
    ELSE {}

\* A table that holds the rules for adb whether or not they are asked for.
ServiceRulesAdbAlways(adb, t_hal_usb_gadget_impl) ==
    SetRules(n_daemon_type, n_daemon_type, "unix_stream_socket", {"connectto"}, "Deny")
    \cup SetRules(n_target_type, n_daemon_type, "unix_stream_socket", {"connectto"},
                  "Allow")
    \cup SetRules("shell", n_daemon_type, "unix_stream_socket", {"connectto"}, "Allow")
    \cup SetRules(n_daemon_type, "shell", "fd", {"use"}, "Allow")

\* The calls of set_rule that subcommand_sepatch makes for the service.
ServiceRules(adb, t_hal_usb_gadget_impl) ==
    SetRules(n_daemon_type, "system_file", "file",
             {"entrypoint", "execute", "map", "read"}, "Allow")
    \cup SetRules("init", n_daemon_type, "process", {"transition"}, "Allow")
    \cup SetRules("init", n_daemon_type, "process", {"noatsecure"}, "Deny")
    \cup SetRules("init", n_daemon_type, "process", {"rlimitinh", "siginh"}, "Allow")
    \cup SetRules(n_daemon_type, n_daemon_type, "capability",
                  {"chown", "setgid", "setuid"}, "Allow")
    \cup SetRules(n_daemon_type, "selinuxfs", "file", {"open", "read"}, "Allow")
    \cup SetRules(n_daemon_type, t_hal_usb_gadget_impl, "dir", {"search"}, "Allow")
    \cup SetRules(n_daemon_type, "domain", "file", {"read"}, "Deny")
    \cup SetRules(n_daemon_type, t_hal_usb_gadget_impl, "file", {"read"}, "Allow")
    \cup SetRules(n_daemon_type, t_hal_usb_gadget_impl, "lnk_file", {"read"}, "Allow")
    \cup SetRules(n_daemon_type, t_hal_usb_gadget_impl, "process",
                  {"sigstop", "signal"}, "Allow")
    \cup SetRules(n_daemon_type, "configfs", "dir",
                  {"add_name", "create", "open", "read", "remove_name", "rmdir", "search",
                   "setattr", "write"}, "Allow")
    \cup SetRules(n_daemon_type, "configfs", "file",
                  {"create", "open", "setattr", "write"}, "Allow")
    \cup SetRules(n_daemon_type, "configfs", "lnk_file",
                  {"create", "read", "unlink"}, "Allow")
    \cup SetRules(n_daemon_type, "usb_control_prop", "file",
                  {"getattr", "map", "open", "read"}, "Allow")
    \cup SetRules(n_daemon_type, "mediaprovider", "fd", {"use"}, "Allow")
    \cup SetRules(n_daemon_type, "mediaprovider_app", "fd", {"use"}, "Allow")
    \cup SetRules(n_daemon_type, "fuse", "file",
                  {"getattr", "read", "open", "write"}, "Allow")
    \cup SetRules("kernel", n_daemon_type, "fd", {"use"}, "Allow")
    \cup SetRules(n_daemon_type, n_daemon_type, "unix_stream_socket", {"connectto"}, "Deny")
    \cup SetRules(n_target_type, n_daemon_type, "unix_stream_socket", {"connectto"},
                  "Allow")
    \cup (IF adb
          THEN SetRules("shell", n_daemon_type, "unix_stream_socket", {"connectto"},
                        "Allow")
               \cup SetRules(n_daemon_type, "shell", "fd", {"use"}, "Allow")
          ELSE {})

\* PolicyDb::set_rule for each of the calls: Allow adds the permission to the
\* allow rule, Deny takes it from it.  No two of the calls name one rule.
set_rule(rules, calls) ==
    (rules \ {c.rule : c \in {x \in calls : x.action = "Deny"}})
    \cup {c.rule : c \in {x \in calls : x.action = "Allow"}}

\* PolicyDb::strip_no_audit
strip_no_audit(rules) == {r \in rules : r.kind # "dontaudit"}

\* A name of a policy: a role, a type, a class, or a permission of a class.
Name(kind, class, name) == [kind |-> kind, class |-> class, name |-> name]

TypeName(name) == Name("type", "", name)

\* The permissions subcommand_sepatch looks up, by class.
LookedUpPerms ==
    [capability |-> {"chown", "setgid", "setuid"},
     dir |-> {"add_name", "create", "open", "read", "remove_name", "rmdir", "search",
              "setattr", "write"},
     fd |-> {"use"},
     file |-> {"create", "entrypoint", "execute", "getattr", "map", "open", "read",
               "setattr", "write"},
     lnk_file |-> {"create", "read", "unlink"},
     process |-> {"noatsecure", "rlimitinh", "siginh", "signal", "sigstop", "transition"},
     unix_stream_socket |-> {"connectto"}]

\* The names looked up with r!, t!, c! and p! whose absence is an error:
\* all but the type of the HAL implementation.
LookedUp ==
    {Name("role", "", "r")}
    \cup {TypeName(t) : t \in ((SourceTypes \cup NamedTypes \cup {"mlstrustedsubject"})
                                 \ {"hal_usb_gadget_impl"})}
    \cup {Name("class", "", c) : c \in DOMAIN LookedUpPerms}
    \cup UNION {{Name("perm", c, perm) : perm \in LookedUpPerms[c]} : c \in DOMAIN LookedUpPerms}

\* The type that is looked up only as hal_usb_gadget_impl.
t_hal_usb_gadget_impl_only(names) ==
    IF TypeName("hal_usb_gadget_impl") \in names THEN "hal_usb_gadget_impl" ELSE None

\* t_hal_usb_gadget_impl: the type of that name, su when there is none, and
\* the error of the first lookup when there is no su either.
t_hal_usb_gadget_impl(names) ==
    IF TypeName("hal_usb_gadget_impl") \in names THEN "hal_usb_gadget_impl"
    ELSE IF TypeName("su") \in names THEN "su"
    ELSE None

\* Every lookup of subcommand_sepatch finds its name.
Resolves(names) ==
    /\ LookedUp \subseteq names
    /\ t_hal_usb_gadget_impl(names) # None

\* What write_policy leaves at the path; the path holds no file ("absent"),
\* an empty file, a file with data from before ("old"), the policy ("new") or
\* a part of the policy ("short").  failAt is the call that fails, "short"
\* for a write of fewer bytes than the policy has.
WriteOutcomes == {"ok", "to_raw", "open", "metadata", "set_len", "write", "short"}

Targets == {"absent", "empty", "old"}

write_policy(target, failAt) ==
    IF failAt \in {"to_raw", "open"} THEN target
    ELSE IF failAt \in {"metadata", "set_len"}
    THEN (IF target = "absent" THEN "empty" ELSE target)
    ELSE IF failAt = "write" THEN "empty"
    ELSE IF failAt = "short" THEN "short"
    ELSE "new"

\* A run of the patcher at a point of subcommand_sepatch: the rules and the
\* names of the policy read, the names and rules of the policy database, the
\* options, the type resolved for the HAL implementation, the file at the
\* target path now and when the run began, the call that failed, and, in a
\* second run, the rules the first run wrote and what the second one reads.
Patching(at, source, read, adb, strip, target, run, first, mode) ==
    [pc |-> at, source |-> source, read |-> read, names |-> read, rules |-> source,
     adb |-> adb, strip |-> strip, impl |-> None, target |-> target, was |-> target,
     err |-> "none", run |-> run, first |-> first, mode |-> mode]

\* The names of a policy that has all the names a run looks up.
AllNames == LookedUp \cup {TypeName("hal_usb_gadget_impl"), TypeName("su")}

\* Names that policies read may lack.
MaybeAbsent ==
    {TypeName("hal_usb_gadget_impl"), TypeName("su"), TypeName("shell"),
     TypeName(n_source_uffd_type), Name("role", "", "r"), Name("class", "", "fd"),
     Name("perm", "process", "noatsecure")}

patchVars == <<gadget, fds, lock, pc, req, loc, resp, halStopped, trace, last, stream, proc, wire>>

NotServing ==
    /\ gadget = CleanGadget
    /\ fds = [n \in {} |-> "dir"]
    /\ lock = 0
    /\ pc = [w \in Workers |-> "recv"]
    /\ req = [w \in Workers |-> NoRequest]
    /\ loc = [w \in Workers |-> NoLocals]
    /\ resp = [w \in Workers |-> "none"]
    /\ halStopped = {}
    /\ trace = [w \in Workers |-> <<>>]
    /\ last = [result |-> "none", devices |-> <<>>]
    /\ stream = [w \in Workers |-> <<>>]
    /\ proc = Serving
    /\ wire = NoWire

\* A policy with every name, or one without the HAL implementation type, has
\* been read.
InitPatch ==
    /\ NotServing
    /\ \E rules \in RuleSets(MaxRules), adb \in BOOLEAN, strip \in BOOLEAN :
         policy = Patching("resolve", rules, AllNames, adb, strip, "absent", 1, {}, "none")

\* A policy that may lack names has been read, and the target path may hold
\* a file.
InitResolve ==
    /\ NotServing
    /\ \E rules \in RuleSets(1), adb \in BOOLEAN, strip \in BOOLEAN,
          absent \in SUBSET MaybeAbsent, target \in Targets :
         /\ Cardinality(absent) <= 2
         /\ policy = Patching("resolve", rules, AllNames \ absent, adb, strip, target,
                              1, {}, "none")

Failed(err) == [policy EXCEPT !.pc = "failed", !.err = err]

\* The lookups of roles, types, classes and permissions.
Resolve ==
    /\ policy.pc = "resolve"
    /\ policy' = IF Resolves(policy.names)
                 THEN [policy EXCEPT !.pc = "clone",
                                     !.impl = t_hal_usb_gadget_impl(policy.names)]
                 ELSE Failed("resolve")
    /\ UNCHANGED patchVars

\* Make msd_app a copy of untrusted_app: create_type twice, then
\* copy_avtab_rules.  failAt is the create_type that fails, 0 for none.
CloneApp ==
    /\ policy.pc = "clone"
    /\ \E failAt \in 0..2 :
         policy' =
            IF failAt = 1 THEN Failed("clone")
            ELSE IF failAt = 2
            THEN [Failed("clone") EXCEPT !.names = @ \cup {TypeName(n_target_type)}]
            ELSE [policy EXCEPT !.pc = "daemon",
                                !.names = @ \cup {TypeName(n_target_type),
                                                  TypeName(n_target_uffd_type)},
                                !.rules = copy_avtab_rules_clone(@)]
    /\ UNCHANGED patchVars

\* Create a new type for running the daemon: create_type, copy_avtab_rules,
\* and the calls of set_rule.  On io = "err" add_to_role fails.
CreateDaemon ==
    /\ policy.pc = "daemon"
    /\ \E io \in IoOutcomes :
         policy' =
            IF io = "ok"
            THEN [policy EXCEPT !.pc = "strip",
                                !.names = @ \cup {TypeName(n_daemon_type)},
                                !.rules = set_rule(copy_avtab_rules_self(@),
                                                   ServiceRules(policy.adb, policy.impl))]
            ELSE [Failed("daemon") EXCEPT !.names = @ \cup {TypeName(n_daemon_type)}]
    /\ UNCHANGED patchVars

\* if cli.strip_no_audit { pdb.strip_no_audit(); }
StripNoAudit ==
    /\ policy.pc = "strip"
    /\ policy' = [policy EXCEPT !.pc = "write",
                                !.rules = IF policy.strip THEN strip_no_audit(@) ELSE @]
    /\ UNCHANGED patchVars

\* write_policy(cli.target.as_path(), &pdb)?
WritePolicy ==
    /\ policy.pc = "write"
    /\ \E failAt \in WriteOutcomes :
         /\ failAt = "set_len" => policy.target \notin {"absent", "empty"}
         /\ policy' = [policy EXCEPT !.pc = IF failAt = "ok" THEN "written" ELSE "failed",
                                     !.err = IF failAt = "ok" THEN "none" ELSE failAt,
                                     !.target = write_policy(@, failAt)]
    /\ UNCHANGED patchVars

\* The patcher is run once more with the same options, on the policy it read
\* before ("same") or on the policy it wrote ("patched").
Rerun ==
    /\ policy.pc = "written"
    /\ policy.run = 1
    /\ \E mode \in {"same", "patched"} :
         policy' = IF mode = "same"
                   THEN Patching("resolve", policy.source, policy.read, policy.adb,
                                 policy.strip, policy.target, 2, policy.rules, mode)
                   ELSE Patching("resolve", policy.rules, policy.names, policy.adb,
                                 policy.strip, policy.target, 2, policy.rules, mode)
    /\ UNCHANGED patchVars

NextPatch ==
    \/ Resolve
    \/ CloneApp
    \/ CreateDaemon
    \/ StripNoAudit
    \/ WritePolicy
    \/ Rerun

SpecPatch == InitPatch /\ [][NextPatch]_vars

SpecResolve == InitResolve /\ [][NextPatch]_vars

\* The clone of a donor type, and any other type itself.
CloneOf(type) ==
    IF type = "untrusted_app" THEN "msd_app"
    ELSE IF type = "untrusted_app_userfaultfd" THEN "msd_app_userfaultfd"
    ELSE type

\* The calls of write_policy.
WritePhase == WriteOutcomes \ {"ok"}

\* The run is past the step that clones the app, or that makes the service,
\* or that strips.
PastClone ==
    \/ policy.pc \in {"daemon", "strip", "write", "written"}
    \/ policy.pc = "failed" /\ policy.err \in {"daemon"} \cup WritePhase

PastDaemon ==
    \/ policy.pc \in {"strip", "write", "written"}
    \/ policy.pc = "failed" /\ policy.err \in WritePhase

PastStrip ==
    \/ policy.pc \in {"write", "written"}
    \/ policy.pc = "failed" /\ policy.err \in WritePhase

\* The rule has been removed as one the run was asked to strip.
Stripped(r) ==
    /\ policy.strip
    /\ PastStrip
    /\ r.kind = "dontaudit"

\* C20: once the app type is cloned, every rule of the policy read is still
\* in the policy, and so is the rule with the clone in the place of each
\* donor in it (in both places when both hold a donor); and the rules between
\* the types of the policy read are the rules read, no more and no fewer.
\* The dontaudit rules go, originals and clones alike, when the run strips
\* them at its end.
CloneKeepsRules ==
    PastClone =>
        /\ \A r \in policy.source :
             ~Stripped(r) =>
                 /\ r \in policy.rules
                 /\ [r EXCEPT !.source = CloneOf(r.source), !.target = CloneOf(r.target)]
                       \in policy.rules
        /\ \A r \in policy.rules :
             /\ r.source \in SourceTypes \cup NamedTypes
             /\ r.target \in SourceTypes \cup NamedTypes
             => r \in policy.source

\* C20 as stated: every rule of the policy read and its clone are in the
\* patched policy, whatever the options of the run.
CloneKeepsEveryRule ==
    PastClone =>
        /\ \A r \in policy.source :
             /\ r \in policy.rules
             /\ [r EXCEPT !.source = CloneOf(r.source), !.target = CloneOf(r.target)]
                   \in policy.rules
        /\ \A r \in policy.rules :
             /\ r.source \in SourceTypes \cup NamedTypes
             /\ r.target \in SourceTypes \cup NamedTypes
             => r \in policy.source

\* A policy with a rule from the donor to its userfaultfd variant and a rule
\* between unrelated types has been patched and written, without stripping.
CloneKeepsRulesWitness ==
    /\ policy.pc = "written"
    /\ policy.run = 1
    /\ ~policy.strip
    /\ \E r \in policy.source :
         r.source = "untrusted_app" /\ r.target = "untrusted_app_userfaultfd"
    /\ \E r \in policy.source : r.source = "shell" /\ r.target = "hal_usb_gadget_default"

\* The allow rule for a source connecting to the sockets of the service.
Connectto(source) == Rule(source, n_daemon_type, "unix_stream_socket", "allow", "connectto")

\* The allow rule of the HAL for connecting to sockets of its own, which the
\* copy of the self-rules gives to the service.
HalSelfConnectto ==
    Rule("hal_usb_gadget_default", "hal_usb_gadget_default", "unix_stream_socket", "allow",
         "connectto")

\* C21: in every policy patched, the service is not allowed to connect to
\* sockets of its own, also when the policy read allows the HAL that and the
\* copy of the self-rules gave the allow to the service; and the cloned app is
\* allowed to connect to the service.
DenyPrecedesAllow ==
    PastDaemon =>
        /\ Connectto(n_daemon_type) \notin policy.rules
        /\ Connectto(n_target_type) \in policy.rules

\* A policy that allows the HAL to connect to itself has been patched and
\* written, and still allows the HAL that.
DenyPrecedesAllowWitness ==
    /\ policy.pc = "written"
    /\ policy.run = 1
    /\ HalSelfConnectto \in policy.source
    /\ HalSelfConnectto \in policy.rules

FailedBeforeWrite ==
    policy.pc = "failed" /\ policy.err \in {"resolve", "clone", "daemon", "to_raw"}

\* The policy database is as it was read.
NotMutated == policy.rules = policy.source /\ policy.names = policy.read

\* C23: the lookups succeed exactly when every name but the HAL
\* implementation type is in the policy and that type or su is; the type used
\* for the HAL implementation is then that type if the policy has it and su
\* if not.  When a lookup fails the run fails with the policy database as it
\* was read.  Until write_policy opens it, and in every failure before that,
\* the target path is as it was: not created, not written.
NameResolution ==
    /\ policy.pc # "resolve" =>
         /\ policy.err = "resolve" <=>
                ~(/\ LookedUp \subseteq policy.read
                  /\ \/ TypeName("hal_usb_gadget_impl") \in policy.read
                     \/ TypeName("su") \in policy.read)
         /\ policy.err = "resolve" => policy.pc = "failed" /\ NotMutated
         /\ policy.err # "resolve" =>
                policy.impl = IF TypeName("hal_usb_gadget_impl") \in policy.read
                              THEN "hal_usb_gadget_impl" ELSE "su"
    /\ PastDaemon =>
         Rule(n_daemon_type, policy.impl, "process", "allow", "sigstop") \in policy.rules
    /\ (FailedBeforeWrite \/ policy.pc \in {"resolve", "clone", "daemon", "strip", "write"})
         => policy.target = policy.was

\* C23 as stated: in every failure before the write phase the policy has not
\* been mutated and the target path is as it was.
FailureLeavesPolicyAndTarget ==
    FailedBeforeWrite => NotMutated /\ policy.target = policy.was

\* A policy without the HAL implementation type was patched with su in its
\* place and written over a file.
NameResolutionWitness ==
    /\ policy.pc = "written"
    /\ policy.run = 1
    /\ policy.was = "old"
    /\ TypeName("hal_usb_gadget_impl") \notin policy.read
    /\ policy.impl = "su"

\* A run on a policy without the shell type has failed, with a file at the
\* target path.
NameResolutionFailedWitness ==
    /\ policy.pc = "failed"
    /\ policy.err = "resolve"
    /\ TypeName("shell") \notin policy.read
    /\ TypeName("hal_usb_gadget_impl") \in policy.read
    /\ policy.was = "old"

(***************************************************************************)
(* usb.rs: the operations of the gadget adapter by themselves.  `last` is  *)
(* the latest call: the operation, its arguments (n a LUN, s a link name   *)
(* or controller id, f a function name), the outcome of its system call,   *)
(* the tree before it, what it returned, whether it repeats the call       *)
(* before it, which returned Ok, and whether the call before it was a      *)
(* set_controller(Some(id)).                                               *)
(***************************************************************************)
AdapterCall(op, n, s, f, io, before, ret, again, afterBind) ==
    [op |-> op, n |-> n, s |-> s, f |-> f, io |-> io, before |-> before, ret |-> ret,
     again |-> again, afterBind |-> afterBind]

NoCall == AdapterCall("none", -1, "", "", "ok", CleanGadget, "none", FALSE, FALSE)

LinkNames == {CONFIG_NAME, OtherLink}

FunctionNames == {FUNCTION_NAME, OtherFunction}

\* The outcomes of a create_dir followed by a chown.
CreateOutcomes == IoOutcomes \cup {"chown"}

adapterVars == <<fds, lock, pc, req, loc, resp, halStopped, trace, stream, proc, wire, policy>>

InitAdapter ==
    /\ gadget \in {CleanGadget} \cup {LeftBehind(k) : k \in 1..MaxInitLuns}
    /\ fds = [n \in {} |-> "dir"]
    /\ lock = 0
    /\ pc = [w \in Workers |-> "recv"]
    /\ req = [w \in Workers |-> NoRequest]
    /\ loc = [w \in Workers |-> NoLocals]
    /\ resp = [w \in Workers |-> "none"]
    /\ halStopped = {}
    /\ trace = [w \in Workers |-> <<>>]
    /\ last = NoCall
    /\ stream = [w \in Workers |-> <<>>]
    /\ proc = Serving
    /\ wire = NoWire
    /\ policy = NoPolicy

\* The call op(n, s, f) is made with outcome io and does r.
Adapter(op, n, s, f, io, r) ==
    /\ gadget' = r.g
    /\ last' = AdapterCall(op, n, s, f, io, gadget, r.ret,
                           /\ last.op = op /\ last.n = n /\ last.s = s /\ last.f = f
                           /\ last.ret # "err",
                           last.op = "set_controller" /\ last.s # Unbound)
    /\ UNCHANGED adapterVars

AdapterSetController ==
    \E id \in {Unbound, ControllerId}, io \in UdcOutcomes :
        Adapter("set_controller", -1, id, "", io, set_controller(gadget, id, io))

AdapterCreateConfig ==
    \E name \in LinkNames, function \in FunctionNames, io \in IoOutcomes :
        Adapter("create_config", -1, name, function, io,
                create_config(gadget, name, function, io))

AdapterDeleteConfig ==
    \E name \in LinkNames, io \in IoOutcomes :
        Adapter("delete_config", -1, name, "", io, delete_config(gadget, name, io))

AdapterCreateFunction ==
    \E io \in CreateOutcomes :
        Adapter("create_function", -1, "", FUNCTION_NAME, io, create_function(gadget, io))

AdapterDeleteFunction ==
    \E io \in IoOutcomes :
        Adapter("delete_function", -1, "", FUNCTION_NAME, io, delete_function(gadget, io))

\* The methods of the handle open_mass_storage_function gave.
AdapterCreateLun ==
    /\ open_mass_storage_function(gadget, "ok") = "some"
    /\ \E lun \in 0..MaxDevices, io \in CreateOutcomes :
         Adapter("create_lun", lun, "", FUNCTION_NAME, io, create_lun(gadget, lun, io))

AdapterDeleteLun ==
    /\ open_mass_storage_function(gadget, "ok") = "some"
    /\ \E lun \in 0..MaxDevices, io \in IoOutcomes :
         Adapter("delete_lun", lun, "", FUNCTION_NAME, io, delete_lun(gadget, lun, io))

NextAdapter ==
    \/ AdapterSetController
    \/ AdapterCreateConfig
    \/ AdapterDeleteConfig
    \/ AdapterCreateFunction
    \/ AdapterDeleteFunction
    \/ AdapterCreateLun
    \/ AdapterDeleteLun

SpecAdapter == InitAdapter /\ [][NextAdapter]_vars

\* The node the latest call names is in the tree g.
NodeIn(g) ==
    IF last.op \in {"create_function", "delete_function"} THEN g.function
    ELSE IF last.op \in {"create_lun", "delete_lun"} THEN last.n \in DOMAIN g.luns
    ELSE last.s \in DOMAIN g.configs

\* C24: create_function and create_lun return true only for a node that was
\* not there and is there now, and false, with the tree as it was, exactly
\* when the node was there and no system call failed; they return true for
\* a node that was not there when no system call fails.  delete_config,
\* delete_function and delete_lun return true only for a node that was there
\* and is gone, and false, with the tree as it was, exactly when the node
\* was not there and no system call failed.  A call that repeats the call
\* before it, which returned Ok, leaves the tree as it was and does not
\* return true.
EffectiveChange ==
    /\ last.op \in {"create_function", "create_lun"} =>
         /\ last.ret = "true" => ~NodeIn(last.before) /\ NodeIn(gadget)
         /\ last.ret = "false" <=> (NodeIn(last.before) /\ last.io # "err")
         /\ last.ret = "false" => gadget = last.before
         /\ (~NodeIn(last.before) /\ last.io = "ok") => last.ret = "true"
    /\ last.op \in {"delete_config", "delete_function", "delete_lun"} =>
         /\ last.ret = "true" => NodeIn(last.before) /\ ~NodeIn(gadget)
         /\ last.ret = "false" <=> (~NodeIn(last.before) /\ last.io # "err")
         /\ last.ret = "false" => gadget = last.before
    /\ (/\ last.again
        /\ last.op \in {"create_function", "create_lun", "delete_config", "delete_function",
                        "delete_lun"}) =>
         /\ gadget = last.before
         /\ last.ret # "true"

\* lun.2 was deleted, and deleted once more.
EffectiveChangeWitness ==
    /\ last.op = "delete_lun"
    /\ last.n = 2
    /\ last.again
    /\ last.ret = "false"
    /\ last.before.function

\* What the kernel answered the write of the latest set_controller.
LastErrno == UdcWrite(last.before, UdcBytes(last.s), last.io).errno

\* C25: set_controller(None) returns Ok and leaves the gadget unbound when
\* the write fails with ENODEV, and returns the error of any other failed
\* write; set_controller(Some(id)) returns the error of every failed write,
\* ENODEV too, and leaves the tree as it was.  So a set_controller(None) whose
\* write does not fail with another error, after a set_controller(Some(id)),
\* returns Ok with the gadget unbound.
ControllerEnodev ==
    last.op = "set_controller" =>
        /\ LastErrno = "ok" => last.ret = "ok" /\ gadget.UDC = last.s
        /\ (last.s = Unbound /\ LastErrno = "ENODEV") =>
               last.ret = "ok" /\ gadget.UDC = Unbound
        /\ (last.s = Unbound /\ LastErrno \notin {"ok", "ENODEV"}) =>
               last.ret = "err" /\ gadget = last.before
        /\ (last.s # Unbound /\ LastErrno # "ok") =>
               last.ret = "err" /\ gadget = last.before
        /\ (last.afterBind /\ last.s = Unbound /\ last.io # "err") =>
               last.ret = "ok" /\ gadget.UDC = Unbound

\* A gadget that was unbound was cleared with success after a
\* set_controller(Some(id)) that failed.
ControllerEnodevWitness ==
    /\ last.op = "set_controller"
    /\ last.s = Unbound
    /\ last.afterBind
    /\ last.before.UDC = Unbound
    /\ LastErrno = "ENODEV"
    /\ last.ret = "ok"

\* C29: create_config returns true and makes the link when there is no link
\* of the name; returns false and leaves the tree when the link is there and
\* points at the function; and returns an error and leaves the tree when the
\* link is there and points at another function.
CreateConfigResults ==
    last.op = "create_config" =>
        /\ (last.s \notin DOMAIN last.before.configs /\ last.io = "ok") =>
               /\ last.ret = "true"
               /\ gadget = [last.before EXCEPT
                               !.configs = With(last.before.configs, last.s, last.f)]
        /\ (last.s \in DOMAIN last.before.configs /\ last.io = "ok") =>
               /\ last.ret = IF last.before.configs[last.s] = last.f THEN "false" ELSE "err"
               /\ gadget = last.before
        /\ last.ret = "err" => gadget = last.before

\* A link to another function was there when the link msd was asked for.
CreateConfigResultsWitness ==
    /\ last.op = "create_config"
    /\ last.io = "ok"
    /\ last.s \in DOMAIN last.before.configs
    /\ last.before.configs[last.s] # last.f
    /\ last.ret = "err"

(***************************************************************************)
(* A panic in a worker.  The thread unwinds: its locals are dropped, which *)
(* sends SIGCONT to what it stopped and closes its request's descriptors   *)
(* and its stream.  LOCK is a std::sync::Mutex: dropping its guard in a    *)
(* panicking thread poisons it, and lock() of a poisoned mutex returns     *)
(* Err, which the unwrap() of daemon.rs:136 turns into a panic.  `lock` is *)
(* Poisoned when the mutex is free and poisoned.                           *)
(***************************************************************************)
Poisoned == -1

\* The worker unwinds from where it is.
Unwind(w) ==
    /\ pc' = [pc EXCEPT ![w] = "panicked"]
    /\ halStopped' = halStopped \ Range(loc[w].stoppers)
    /\ lock' = IF lock = w THEN Poisoned ELSE lock
    /\ fds' = [n \in DOMAIN fds \ {d.fd : d \in Range(req[w].devices)} |-> fds[n]]
    /\ req' = [req EXCEPT ![w] = NoRequest]
    /\ resp' = [resp EXCEPT ![w] = "none"]
    /\ loc' = [loc EXCEPT ![w] = NoLocals]
    /\ trace' = [trace EXCEPT ![w] = <<>>]
    /\ UNCHANGED <<gadget, last>>
    /\ UNCHANGED aux

\* One worker panics while it handles a request, before, in or after the
\* handler; no worker has panicked before.
Panic(w) ==
    /\ InHandler(w) \/ pc[w] \in {"lock", "respond"}
    /\ \A v \in Workers : pc[v] # "panicked"
    /\ Unwind(w)

\* let _lock = LOCK.lock().unwrap(); with LOCK poisoned.
LockPoisoned(w) ==
    /\ pc[w] = "lock"
    /\ lock = Poisoned
    /\ Unwind(w)

\* The workers are alike: the one that panics first is worker 1.
NextPanic ==
    \/ Panic(1)
    \/ \E w \in Workers :
        \/ RecvRequest(w, ConcRequests)
        \/ SetMassStorage(w, {1})
        \/ SendResponse(w)
        \/ LockPoisoned(w)

SpecPanic == InitClean /\ [][NextPanic]_vars

\* C26: when a worker has panicked, no other worker panics: the requests of
\* the other connections, SetMassStorage too, are handled and answered.
PanicIsolated ==
    \A w \in Workers, v \in Workers :
        (pc[w] = "panicked" /\ pc[v] = "panicked") => w = v

\* The descriptors of the request worker w holds.
HeldBy(w) == {d.fd : d \in Range(req[w].devices)}

\* C27: the descriptors of a request are open, each on the file the client
\* sent, for as long as the worker holds the request: from its reception,
\* through the handler and its writes of `file`, to the response; they are
\* the only descriptors open; and a worker that reads its next request holds
\* no request, so none of the descriptors of the one it finished is open.
DescriptorsHeld ==
    /\ \A w \in Workers : \A k \in DOMAIN req[w].devices :
         /\ req[w].devices[k].fd \in DOMAIN fds
         /\ fds[req[w].devices[k].fd] = req[w].devices[k].file
    /\ DOMAIN fds = UNION {HeldBy(w) : w \in Workers}
    /\ \A w \in Workers : pc[w] = "recv" => req[w] = NoRequest
    /\ \A w \in Workers : (InHandler(w) \/ pc[w] \in {"lock", "respond"}) => req[w] # NoRequest

\* A reconfiguration has attached the file of a request to lun.0 and its
\* response is not yet sent, while another worker waits for a request.
DescriptorsHeldWitness ==
    \E w \in Workers, v \in Workers :
        /\ pc[w] = "respond"
        /\ resp[w] = "SetMassStorageResponse"
        /\ req[w].devices # <<>>
        /\ gadget.function
        /\ gadget.luns[0].file = PathOf(req[w].devices[1].file)
        /\ fds[req[w].devices[1].fd] = req[w].devices[1].file
        /\ v # w
        /\ pc[v] = "recv"

\* The requests of SpecRebuild: those of SpecConc and one with two devices.
RebuildRequests ==
    ConcRequests \cup
        {SetMassStorageRequest(<<Device("a.iso", TRUE, TRUE), Device("b.img", FALSE, FALSE)>>)}

\* The tree is the clean one at first, or holds a function with every LUN.
InitRebuild == Init /\ gadget \in {CleanGadget, LeftBehind(MaxInitLuns)}

\* One connection that replaces what it finds by nothing, one LUN or two.
NextRebuild ==
    \/ RecvRequest(1, RebuildRequests)
    \/ SetMassStorage(1, {1})
    \/ SendResponse(1)

SpecRebuild == InitRebuild /\ [][NextRebuild]_vars

\* The writes of the controller id to UDC in the trace of w.
Binds(w) == {k \in Steps(w) : trace[w][k].op = "UDC" /\ trace[w][k].s # Unbound}

\* The tree holds what the request of w asks for: no function and no link
\* for the empty list, else lun.0 .. lun.(n-1) with the attributes and the
\* file of each device, and the link msd to the function.
Built(w) ==
    IF req[w].devices = <<>>
    THEN ~gadget.function /\ CONFIG_NAME \notin DOMAIN configs(gadget)
    ELSE /\ gadget.function
         /\ DOMAIN gadget.luns = 0..(Len(req[w].devices) - 1)
         /\ \A k \in DOMAIN req[w].devices :
                gadget.luns[LunOf(k)] =
                    [cdrom |-> req[w].devices[k].cdrom, ro |-> req[w].devices[k].ro,
                     file |-> PathOf(req[w].devices[k].file)]
         /\ CONFIG_NAME \in DOMAIN configs(gadget)
         /\ configs(gadget)[CONFIG_NAME] = FUNCTION_NAME

\* C28: in a reconfiguration the empty value is written to UDC before any
\* deletion or creation of a config, function or LUN, and the controller id
\* is written to UDC only as the last operation on the gadget: no operation
\* before it failed, the tree then holds what the request asks for, and
\* until then the gadget stays unbound.
UdcFirstAndLast ==
    \A w \in Workers :
        /\ \A k \in Steps(w) :
              (trace[w][k].op \in MutatingOps /\ k \notin Binds(w)) =>
                /\ \A j \in Binds(w) : k < j
                /\ trace[w][k].op # "UDC" =>
                      \E j \in Steps(w) :
                          /\ j < k
                          /\ trace[w][j] = Event("UDC", -1, Unbound, "ok")
                          /\ \A i \in 1..(j - 1) : trace[w][i].op \notin MutatingOps
        /\ \A k \in Binds(w) :
              /\ \A j \in Steps(w) :
                    (j < k /\ trace[w][j].op \in MutatingOps) => trace[w][j].ret # "err"
              /\ InHandler(w) => Built(w)
        /\ (InHandler(w) /\ \E k \in Steps(w) : trace[w][k].op \in MutatingOps
                                                 /\ trace[w][k].ret # "err") =>
              (gadget.UDC # Unbound =>
                 \E k \in Binds(w) : trace[w][k].ret = "ok")

\* A request with two devices replaced a bound function with three LUNs and
\* the controller id was written; the handler returns Ok.
UdcFirstAndLastWitness ==
    \E w \in Workers :
        /\ Returning(w) /\ loc[w].result = "Ok"
        /\ Len(req[w].devices) = 2
        /\ loc[w].g0.function /\ loc[w].g0.UDC = ControllerId
        /\ \E k \in Binds(w) : trace[w][k].ret = "ok"
        /\ gadget.UDC = ControllerId

\* The write of ro of lun.1 failed and the handler returns Err with the
\* gadget unbound and the function half built.
UdcNotWrittenWitness ==
    \E w \in Workers :
        /\ Returning(w) /\ loc[w].result = "Err"
        /\ \E k \in Steps(w) : trace[w][k] = Event("write", 1, "ro", "err")
        /\ gadget.function /\ gadget.UDC = Unbound /\ Binds(w) = {}

(***************************************************************************)
(* GetFunctions call by call: configs() lists the config directory and     *)
(* then reads each link, while another worker reconfigures the gadget.     *)
(***************************************************************************)
\* The locals of handle_get_functions_request: the directory entries listed,
\* those the loop has yet to visit, and the map built so far.
Listing(listed) == [listed |-> listed, entries |-> listed, functions |-> [n \in {} |-> ""]]

\* The orders in which the kernel may list the names of S.
Orders(S) == {o \in [1..Cardinality(S) -> S] : Range(o) = S}

\* Dir::read_link_contents: the target of the link, NotFound when the link
\* is not there, or another error.
read_link_contents(g, name, io) ==
    IF io = "err" THEN "err"
    ELSE IF name \notin DOMAIN g.configs THEN "NotFound"
    ELSE g.configs[name]

\* handle_request reads a GetFunctions request: no lock is taken.
RecvGetFunctions(w) ==
    /\ pc[w] = "recv"
    /\ req' = [req EXCEPT ![w] = [type |-> "GetFunctions", devices |-> <<>>]]
    /\ pc' = [pc EXCEPT ![w] = "list_configs"]
    /\ loc' = [loc EXCEPT ![w] = Listing(<<>>)]
    /\ trace' = [trace EXCEPT ![w] = <<>>]
    /\ UNCHANGED <<gadget, fds, lock, resp, halStopped, last>>
    /\ UNCHANGED aux

\* The handler of w returns: Err becomes an ErrorResponse.
Answer(w, ok) ==
    /\ pc' = [pc EXCEPT ![w] = "respond"]
    /\ resp' = [resp EXCEPT ![w] = IF ok THEN ResponseOf(req[w].type) ELSE "ErrorResponse"]

\* UsbGadget::new, open_dir and dir.entries(): the names in the config.
ListConfigs(w) ==
    /\ pc[w] = "list_configs"
    /\ \E io \in IoOutcomes :
        IF io = "err"
        THEN /\ Log(w, <<Event("readdir", -1, "", "err")>>)
             /\ Answer(w, FALSE)
             /\ UNCHANGED loc
        ELSE \E o \in Orders(DOMAIN gadget.configs) :
                /\ Log(w, <<Event("readdir", Len(o), "", "ok")>>)
                /\ loc' = [loc EXCEPT ![w] = Listing(o)]
                /\ IF o = <<>> THEN Answer(w, TRUE)
                   ELSE pc' = [pc EXCEPT ![w] = "read_link"] /\ UNCHANGED resp
    /\ UNCHANGED <<gadget, fds, lock, req, halStopped, last>>
    /\ UNCHANGED aux

\* A loop body of configs() for which a link that is gone is an error.
ReadLinkStrict(w) ==
    /\ pc[w] = "read_link"
    /\ \E io \in IoOutcomes :
        LET name == Head(loc[w].entries)
            target == read_link_contents(gadget, name, io)
        IN  /\ Log(w, <<Event("readlink", -1, name, target)>>)
            /\ IF target \in {"err", "NotFound"}
               THEN Answer(w, FALSE) /\ UNCHANGED loc
               ELSE /\ loc' = [loc EXCEPT ![w].entries = Tail(@),
                                          ![w].functions = With(@, name, target)]
                    /\ IF Tail(loc[w].entries) = <<>> THEN Answer(w, TRUE)
                       ELSE UNCHANGED <<pc, resp>>
    /\ UNCHANGED <<gadget, fds, lock, req, halStopped, last>>
    /\ UNCHANGED aux

\* The loop body of configs() for the next entry: read the link, skip it when
\* it is gone, fail on another error, else insert name -> target basename.
ReadLink(w) ==
    /\ pc[w] = "read_link"
    /\ \E io \in IoOutcomes :
        LET name == Head(loc[w].entries)
            target == read_link_contents(gadget, name, io)
        IN  /\ Log(w, <<Event("readlink", -1, name, target)>>)
            /\ IF target = "err"
               THEN Answer(w, FALSE) /\ UNCHANGED loc
               ELSE /\ loc' = [loc EXCEPT ![w].entries = Tail(@),
                                          ![w].functions =
                                              IF target = "NotFound" THEN @
                                              ELSE With(@, name, target)]
                    /\ IF Tail(loc[w].entries) = <<>> THEN Answer(w, TRUE)
                       ELSE UNCHANGED <<pc, resp>>
    /\ UNCHANGED <<gadget, fds, lock, req, halStopped, last>>
    /\ UNCHANGED aux

\* A function is linked and bound at first, or the tree is the clean one.
InitRace == Init /\ gadget \in {CleanGadget, LeftBehind(1)}

\* Connection 1 reconfigures, connection 2 asks for the functions.
NextRace ==
    \/ RecvRequest(1, ConcRequests)
    \/ SetMassStorage(1, {1})
    \/ SendResponse(1)
    \/ RecvGetFunctions(2)
    \/ ListConfigs(2)
    \/ ReadLink(2)
    \/ SendResponse(2)

SpecRace == InitRace /\ [][NextRace]_vars

\* Worker w has handled a GetFunctions request and not yet sent the response.
Listed(w) == req[w].type = "GetFunctions" /\ pc[w] = "respond"

\* The trace of w holds a call that failed.
CallFailed(w) == \E k \in Steps(w) : trace[w][k].ret = "err"

\* The reading of link `name` by w found it gone.
Skipped(w, name) == \E k \in Steps(w) : trace[w][k] = Event("readlink", -1, name, "NotFound")

\* C30: GetFunctions never holds the reconfiguration mutex; it fails only
\* when a call fails with an error other than the link being gone; a link
\* deleted between the listing and its reading is skipped, and the response
\* maps every other listed link name to its target.
GetFunctionsRaces ==
    \A w \in Workers :
        /\ req[w].type = "GetFunctions" => lock # w
        /\ Listed(w) =>
            /\ resp[w] = "GetFunctionsResponse" <=> ~CallFailed(w)
            /\ resp[w] = "GetFunctionsResponse" =>
                /\ loc[w].entries = <<>>
                /\ \A name \in Range(loc[w].listed) :
                      IF Skipped(w, name) THEN name \notin DOMAIN loc[w].functions
                      ELSE /\ name \in DOMAIN loc[w].functions
                           /\ loc[w].functions[name] =
                                 IF name = CONFIG_NAME THEN FUNCTION_NAME ELSE OtherFunction
                /\ DOMAIN loc[w].functions \subseteq Range(loc[w].listed)

\* The link msd was listed, the teardown of connection 1 deleted it before it
\* was read, and GetFunctions answers with the other link while connection 1
\* still holds the mutex.
GetFunctionsRacesWitness ==
    \E w \in Workers :
        /\ Listed(w) /\ resp[w] = "GetFunctionsResponse"
        /\ CONFIG_NAME \in Range(loc[w].listed) /\ Skipped(w, CONFIG_NAME)
        /\ DOMAIN loc[w].functions = {OtherLink}
        /\ lock # 0 /\ lock # w /\ InHandler(lock)

(***************************************************************************)
(* The request loop of handle_client read by read: the tag, the count of   *)
(* a SetMassStorage request, and for each device its descriptor and its    *)
(* two flags.  The worker ends at "ended" when handle_client returns       *)
(* Ok(()) and at "closed" when it returns an error, which the worker logs. *)
(***************************************************************************)
\* The locals of SetMassStorageRequest::from_socket: the devices to come,
\* those received, and the descriptor of the device whose flags are due.
Decoding(n, devices, pending) == [num_devices |-> n, devices |-> devices, pending |-> pending]

\* The descriptors the decoder of w holds.
DecoderFds(w) ==
    IF pc[w] \in {"device", "flags"}
    THEN {d.fd : d \in Range(loc[w].devices)} \cup {d.fd : d \in Range(loc[w].pending)}
    ELSE {}

\* The files whose descriptors a client of SpecSession sends.
SessionFiles == {"a.iso", "dir"}

\* A handle_client that keeps the descriptors of a request it failed to read.
RequestErrorKeepFds(w, kind) ==
    /\ pc' = [pc EXCEPT ![w] = IF kind = "UnexpectedEof" THEN "ended" ELSE "closed"]
    /\ loc' = [loc EXCEPT ![w] = NoLocals]
    /\ UNCHANGED <<gadget, fds, lock, req, resp, halStopped, trace, last>>

\* The match on Request::from_socket's error in handle_client: UnexpectedEof
\* breaks the loop with Ok(()), any other kind is returned.  What the decoder
\* held is dropped.
RequestError(w, kind) ==
    /\ pc' = [pc EXCEPT ![w] = IF kind = "UnexpectedEof" THEN "ended" ELSE "closed"]
    /\ fds' = [n \in DOMAIN fds \ DecoderFds(w) |-> fds[n]]
    /\ loc' = [loc EXCEPT ![w] = NoLocals]
    /\ UNCHANGED <<gadget, lock, req, resp, halStopped, trace, last>>

\* Request::from_socket returns the request: handle_request is next.
Decoded(w, id, devices) ==
    /\ Heard(w, <<Event("read", id, "request", "ok")>>)
    /\ req' = [req EXCEPT ![w] = [type |-> RequestOf(id), devices |-> devices]]
    /\ loc' = [loc EXCEPT ![w] = NoLocals]
    /\ pc' = [pc EXCEPT ![w] =
                 IF RequestOf(id) = "GetFunctions" THEN "get_functions"
                 ELSE IF RequestOf(id) = "GetMassStorage" THEN "get_mass_storage"
                 ELSE "lock"]
    /\ UNCHANGED <<gadget, fds, lock, resp, halStopped, trace, last>>

\* Request::from_socket: stream.read_u8() for the tag, and the match on it.
ReadTag(w) ==
    /\ pc[w] = "recv"
    /\ \/ /\ Heard(w, <<Event("read", -1, "tag", "UnexpectedEof")>>)
          /\ RequestError(w, "UnexpectedEof")
       \/ /\ RequestsRead(w) < MaxRequests
          /\ \E id \in TagBytes :
                IF RequestOf(id) = "InvalidData"
                THEN /\ Heard(w, <<Event("read", id, "tag", "InvalidData")>>)
                     /\ RequestError(w, "InvalidData")
                ELSE IF RequestOf(id) = "SetMassStorage"
                THEN /\ pc' = [pc EXCEPT ![w] = "count"]
                     /\ UNCHANGED <<gadget, fds, lock, req, loc, resp, halStopped, trace,
                                    last, stream>>
                ELSE Decoded(w, id, <<>>)
    /\ UNCHANGED <<proc, wire, policy>>

\* SetMassStorageRequest::from_socket: stream.read_u8() for num_devices.
ReadCount(w) ==
    /\ pc[w] = "count"
    /\ \/ /\ Heard(w, <<Event("read", 0, "count", "UnexpectedEof")>>)
          /\ RequestError(w, "UnexpectedEof")
       \/ \E n \in 0..MaxDevices :
            IF n = 0 THEN Decoded(w, SetMassStorageRequest_ID, <<>>)
            ELSE /\ loc' = [loc EXCEPT ![w] = Decoding(n, <<>>, <<>>)]
                 /\ pc' = [pc EXCEPT ![w] = "device"]
                 /\ UNCHANGED <<gadget, fds, lock, req, resp, halStopped, trace, last, stream>>
    /\ UNCHANGED <<proc, wire, policy>>

\* MassStorageDevice::from_socket: receive_fds(stream, 1)?.  A failed read
\* is heard with the number of devices received before it.
ReceiveFd(w) ==
    /\ pc[w] = "device"
    /\ \E a \in DOMAIN Ancillaries, bytes \in 0..1, file \in SessionFiles :
        LET got == recvmsg_fds(bytes, Ancillaries[a], 1)
            fd == LowestFree(fds)
        IN  IF got = "ok"
            THEN /\ fds' = With(fds, fd, file)
                 /\ loc' = [loc EXCEPT ![w].pending = <<[fd |-> fd, file |-> file]>>]
                 /\ pc' = [pc EXCEPT ![w] = "flags"]
                 /\ UNCHANGED <<gadget, lock, req, resp, halStopped, trace, last, stream>>
            ELSE /\ Heard(w, <<Event("read", Len(loc[w].devices), "fd", got)>>)
                 /\ RequestError(w, got)
    /\ UNCHANGED <<proc, wire, policy>>

\* MassStorageDevice::from_socket: read_u8()? != 0 for cdrom and for ro, and
\* devices.push(device); eofAt is the read at which the stream ends, if any.
ReadFlags(w) ==
    /\ pc[w] = "flags"
    /\ \E eofAt \in 0..2, flag \in BOOLEAN :
        LET p == loc[w].pending[1]
            devices == Append(loc[w].devices,
                              [fd |-> p.fd, file |-> p.file, cdrom |-> flag, ro |-> flag])
        IN  IF eofAt > 0
            THEN /\ Heard(w, <<Event("read", Len(loc[w].devices),
                                     IF eofAt = 1 THEN "cdrom" ELSE "ro", "UnexpectedEof")>>)
                 /\ RequestError(w, "UnexpectedEof")
            ELSE IF Len(devices) = loc[w].num_devices
            THEN Decoded(w, SetMassStorageRequest_ID, devices)
            ELSE /\ loc' = [loc EXCEPT ![w] = Decoding(@.num_devices, devices, <<>>)]
                 /\ pc' = [pc EXCEPT ![w] = "device"]
                 /\ UNCHANGED <<gadget, fds, lock, req, resp, halStopped, trace, last, stream>>
    /\ UNCHANGED <<proc, wire, policy>>

\* One connection past its handshake.
NextSession ==
    \/ ReadTag(1)
    \/ ReadCount(1)
    \/ ReceiveFd(1)
    \/ ReadFlags(1)
    \/ GetFunctions(1)
    \/ GetMassStorage(1)
    \/ SetMassStorage(1, {1})
    \/ ConnSend(1)

SpecSession == InitClean /\ [][NextSession]_vars

\* The last thing heard on the connection of w.
LastHeard(w) == stream[w][Len(stream[w])]

\* C31: the session ends without a logged failure only when the stream ends
\* at a request boundary; a stream that ends after the tag, after the count
\* or within the devices of a request ends the session as a failure.
GracefulOnlyOnCleanEof ==
    \A w \in Workers :
        pc[w] = "ended" =>
            /\ stream[w] # <<>>
            /\ LastHeard(w) = Event("read", -1, "tag", "UnexpectedEof")

\* The stream ended after the tag of SetMassStorage and the session ended
\* without a failure.
EndedInsideFrame ==
    \E w \in Workers :
        /\ pc[w] = "ended"
        /\ LastHeard(w) = Event("read", 0, "count", "UnexpectedEof")

\* A read of a device's descriptor or flags failed after n > 0 devices of the
\* request were received.
DeviceReadFailed(e) ==
    e.op = "read" /\ e.s \in {"fd", "cdrom", "ro"} /\ e.ret # "ok" /\ e.n > 0

\* The step hears the failure of a device read on the connection of w.
HearsDeviceReadFailed(w) ==
    /\ Len(stream'[w]) = Len(stream[w]) + 1
    /\ DeviceReadFailed(stream'[w][Len(stream'[w])])

\* C39: when the decoding of a SetMassStorage request fails after some of its
\* devices were received, the reconfiguration is not started: from the tag
\* to the failure no signal is sent, the mutex is not taken and the gadget
\* tree is not touched; at the failure every descriptor received for the
\* request is closed and the connection terminates, and it stays so.
PartialRequestDropped ==
    /\ [][\A w \in Workers :
            /\ pc[w] \in {"count", "device", "flags"} =>
                  UNCHANGED <<gadget, halStopped, trace, lock, last>>
            /\ HearsDeviceReadFailed(w) =>
                  /\ DecoderFds(w) \subseteq DOMAIN fds
                  /\ Cardinality(DecoderFds(w)) >= stream'[w][Len(stream'[w])].n
                  /\ DOMAIN fds' = DOMAIN fds \ DecoderFds(w)
                  /\ pc'[w] \in {"ended", "closed"}]_vars
    /\ [](\A w \in Workers :
            stream[w] # <<>> /\ DeviceReadFailed(LastHeard(w)) =>
                /\ pc[w] \in {"ended", "closed"}
                /\ lock = 0
                /\ halStopped = {}
                /\ DOMAIN fds = {})

\* After a reconfiguration of the connection succeeded, the stream of its
\* next request ended at the flags of the second device: the function of the
\* first request is still linked and bound.
PartialRequestDroppedWitness ==
    \E w \in Workers :
        /\ stream[w] # <<>>
        /\ LastHeard(w) = Event("read", 1, "cdrom", "UnexpectedEof")
        /\ pc[w] = "ended"
        /\ CONFIG_NAME \in DOMAIN gadget.configs
        /\ gadget.UDC = ControllerId

\* The rules of a set whose source or target is the shell type.
OfShell(rules) == {r \in rules : r.source = "shell" \/ r.target = "shell"}

\* The rule that lets the service use descriptors of the shell.
UseShellFd == Rule(n_daemon_type, "shell", "fd", "allow", "use")

\* C32: a run asked to allow adb leaves the shell allowed to connect to the
\* service and the service allowed to use descriptors of the shell; a run not
\* asked to leaves, of the rules that name the shell type, those of the policy
\* read and their clones, no more and no fewer (less the dontaudit rules
\* when it strips them).
AdbRulesOnlyWhenAsked ==
    PastDaemon =>
        IF policy.adb
        THEN Connectto("shell") \in policy.rules /\ UseShellFd \in policy.rules
        ELSE OfShell(policy.rules) =
                {r \in OfShell(policy.source \cup
                               {[x EXCEPT !.source = CloneOf(x.source),
                                          !.target = CloneOf(x.target)] : x \in policy.source}) :
                    ~Stripped(r)}

\* A policy that lets the shell read files of the donor app was patched
\* without the adb option and written: the shell may read files of the clone
\* and may not connect to the service.
AdbRulesOnlyWhenAskedWitness ==
    /\ policy.pc = "written"
    /\ policy.run = 1
    /\ ~policy.adb
    /\ Rule("shell", "untrusted_app", "file", "allow", "read") \in policy.source
    /\ Rule("shell", "msd_app", "file", "allow", "read") \in policy.rules
    /\ Connectto("shell") \notin policy.rules

(***************************************************************************)
(* subcommand_daemon: the acceptor and the workers it spawns.  A worker    *)
(* slot is "idle" until the acceptor hands it a connection.  A connection  *)
(* the service makes to its own address in check_selinux waits, when it    *)
(* is let through, in the backlog of the listener for the acceptor.        *)
(***************************************************************************)
\* The acceptor: where it is, the connection it has accepted (slot and
\* peer), the self-connections that wait in the backlog, the error it has
\* returned.
Acceptor(at, w, peer, backlog, err) ==
    [pc |-> at, w |-> w, peer |-> peer, backlog |-> backlog, err |-> err]

\* The service listens; no connection has been made.
InitAcceptor ==
    /\ gadget = CleanGadget
    /\ fds = [n \in {} |-> "dir"]
    /\ lock = 0
    /\ pc = [w \in Workers |-> "idle"]
    /\ req = [w \in Workers |-> NoRequest]
    /\ loc = [w \in Workers |-> NoLocals]
    /\ resp = [w \in Workers |-> "none"]
    /\ halStopped = {}
    /\ trace = [w \in Workers |-> <<>>]
    /\ last = [result |-> "none", devices |-> <<>>]
    /\ stream = [w \in Workers |-> <<>>]
    /\ proc = Acceptor("accept", 0, "none", 0, "none")
    /\ wire = NoWire
    /\ policy = NoPolicy

acceptorVars == <<gadget, fds, lock, req, loc, resp, halStopped, trace, last, wire, policy>>

\* The slots no connection has been handed to.
Idle == {w \in Workers : pc[w] = "idle"}

\* listener.incoming(): the next connection, of a client or one of the
\* service's own, or an error, which ends the acceptor.
Accept ==
    /\ proc.pc = "accept"
    /\ Idle # {}
    /\ \E io \in IoOutcomes :
        IF io = "err"
        THEN proc' = Acceptor("exited", 0, "none", proc.backlog, "accept")
        ELSE \E peer \in {"other"} \cup (IF proc.backlog > 0 THEN {"self"} ELSE {}) :
                proc' = Acceptor("peercred", CHOOSE w \in Idle : \A v \in Idle : w <= v, peer,
                                 IF peer = "self" THEN proc.backlog - 1 ELSE proc.backlog,
                                 "none")
    /\ UNCHANGED <<pc, stream>>
    /\ UNCHANGED acceptorVars

\* get_socket_peercred(&stream)? and scope.spawn: an error ends the
\* acceptor, and the connection is dropped with it.
GetPeerCred ==
    /\ proc.pc = "peercred"
    /\ \E io \in IoOutcomes :
        IF io = "err"
        THEN /\ proc' = Acceptor("exited", 0, "none", proc.backlog, "peercred")
             /\ pc' = [pc EXCEPT ![proc.w] = "closed"]
             /\ Heard(proc.w, <<Event("peer", -1, "", "err")>>)
        ELSE /\ proc' = Acceptor("accept", 0, "none", proc.backlog, "none")
             /\ pc' = [pc EXCEPT ![proc.w] = "accepted"]
             /\ Heard(proc.w, <<Event("peer", -1, "", proc.peer)>>)
    /\ UNCHANGED acceptorVars

\* The peer of the connection of worker w, as the acceptor read it.
PeerOf(w) == stream[w][1].ret

\* A worker that serves the service's own connections like any other.
CheckPeerServeSelf(w) ==
    /\ pc[w] = "accepted"
    /\ pc' = [pc EXCEPT ![w] = "check_selinux"]
    /\ UNCHANGED <<stream, proc>>
    /\ UNCHANGED acceptorVars

\* if ucred.pid == getpid() { error!(..); return; }
CheckPeer(w) ==
    /\ pc[w] = "accepted"
    /\ pc' = [pc EXCEPT ![w] = IF PeerOf(w) = "self" THEN "closed" ELSE "check_selinux"]
    /\ UNCHANGED <<stream, proc>>
    /\ UNCHANGED acceptorVars

\* check_selinux: the connection to the service's own address; when it is
\* made, it waits in the backlog.
SelfConnectListening(w) ==
    /\ pc[w] = "self_connect"
    /\ \E outcome \in ConnectOutcomes :
        /\ Heard(w, <<Event("connect", -1, "", outcome)>>)
        /\ pc' = [pc EXCEPT ![w] = IF SelfConnectRefused(outcome) THEN "negotiate" ELSE "closed"]
        /\ proc' = IF outcome = "ok" THEN [proc EXCEPT !.backlog = @ + 1] ELSE proc
    /\ UNCHANGED acceptorVars

\* The acceptor, and workers whose clients close after the handshake.
NextAcceptor ==
    \/ Accept
    \/ GetPeerCred
    \/ \E w \in Workers :
        \/ CheckPeer(w)
        \/ EnforceOpen(w)
        \/ EnforceRead(w)
        \/ SelfConnectListening(w)
        \/ ReadVersion(w)
        \/ WriteAck(w)
        \/ RecvEof(w)

SpecAcceptor == InitAcceptor /\ [][NextAcceptor]_vars

\* C33: when the peer credentials of an accepted connection cannot be read,
\* only that connection ends: the acceptor has not returned and goes on to
\* accept.
PeerCredFailureIsolated ==
    \A w \in Workers :
        (stream[w] # <<>> /\ PeerOf(w) = "err") =>
            /\ pc[w] = "closed"
            /\ ~(proc.pc = "exited" /\ proc.err = "peercred")

\* The connections the service made to its own address from the connection
\* of worker w.
SelfConnections(w) ==
    {k \in Heards(w) : stream[w][k] = Event("connect", -1, "", "ok")}

\* The workers handed a connection with this peer.
HandedTo(peer) == {w \in Workers : stream[w] # <<>> /\ PeerOf(w) = peer}

\* The connections of the service to itself that wait in the backlog or are
\* with the acceptor.
Waiting == proc.backlog + (IF proc.peer = "self" THEN 1 ELSE 0)

\* C38: the worker of a connection of the service to itself returns before
\* check_selinux, so it attempts no connection; a connection of a client
\* leads to at most one attempt; and every connection of the service to
\* itself was made from a connection of a client.
SelfProbeTerminates ==
    /\ \A w \in HandedTo("self") :
          /\ pc[w] \in {"accepted", "closed"}
          /\ Len(stream[w]) = 1
    /\ \A w \in Workers :
          Cardinality({k \in Heards(w) : stream[w][k].op = "connect"}) <= 1
    /\ Waiting + Cardinality(HandedTo("self"))
          <= Cardinality({w \in HandedTo("other") : SelfConnections(w) # {}})

\* The policy is broken: the connection of the service to itself from the
\* connection of a client was made, accepted and closed by its worker, and
\* none waits.
SelfProbeTerminatesWitness ==
    \E w \in HandedTo("self"), v \in HandedTo("other") :
        /\ pc[w] = "closed"
        /\ SelfConnections(v) # {}
        /\ pc[v] = "closed"
        /\ Waiting = 0

\* C35: a continue signal is sent only to a process to which the handler has
\* before sent a stop signal with success; after a stop signal that failed,
\* none is sent to that process.
ContinueOnlyAfterStop ==
    \A w \in Workers : \A k \in Steps(w) :
        trace[w][k].op = "cont" =>
            \E j \in Steps(w) :
                j < k /\ trace[w][j] = Event("stop", trace[w][k].n, "", "ok")

\* Worker w has built its stoppers and not yet begun to drop them.
HalSuspendedBy(w) ==
    pc[w] \in {"usb_controller", "unbind", "delete_config", "open_function", "luns",
               "delete_luns", "delete_function", "create_function", "open_new",
               "create_lun", "set_lun", "create_config", "rebind"}

\* C36: the continue signals of a reconfiguration are sent while its worker
\* holds LOCK, and from the time a worker has stopped the HAL processes until
\* it begins to drop its stoppers, all of them are stopped: no other worker
\* has continued one.
ContinuesUnderLock ==
    \A w \in Workers :
        /\ (\E k \in Steps(w) : trace[w][k].op = "cont") => lock = w
        /\ pc[w] = "drop" => lock = w
        /\ HalSuspendedBy(w) =>
              /\ loc[w].stoppers # <<>>
              /\ Range(loc[w].stoppers) \subseteq halStopped

\* One worker has sent its continue signals and is about to release LOCK
\* while another, whose request is read, waits for it to stop the same
\* process.
ContinuesUnderLockWitness ==
    \E w, v \in Workers :
        /\ w # v
        /\ Returning(w)
        /\ \E k \in Steps(w) : trace[w][k] = Event("cont", 1, "", "ok")
        /\ \E k \in Steps(w) : trace[w][k] = Event("stop", 1, "", "ok")
        /\ pc[v] = "lock"
        /\ last.result # "none"

(***************************************************************************)
(* Progress.  Every worker is a thread the kernel keeps scheduling, so a   *)
(* step of a handler or the write of a response that stays possible is     *)
(* taken; every call returns, with whichever outcome.  LOCK is granted     *)
(* fairly: a worker that waits for it while it is released again and again *)
(* gets it.  Nothing makes a client send a request.                        *)
(***************************************************************************)
\* The connections that compete for LOCK in SpecFair.
Competing == {1, 2}

Fairness ==
    \A w \in Competing :
        /\ WF_vars(SetMassStorage(w, {1}))
        /\ SF_vars(Lock(w))
        /\ WF_vars(SendResponse(w))

NextFair ==
    \E w \in Competing :
        \/ RecvRequest(w, ConcRequests)
        \/ SetMassStorage(w, {1})
        \/ SendResponse(w)

SpecFair == InitClean /\ [][NextFair]_vars /\ Fairness

\* The responses to a SetMassStorage request.
Answers == {"SetMassStorageResponse", "ErrorResponse"}

\* C34: every SetMassStorage request read in full, which then waits for
\* LOCK, is in the end answered by a SetMassStorageResponse or an
\* ErrorResponse, which is written and the next request awaited; the worker
\* has one response at a time, and only for a request.
EveryRequestAnswered ==
    \A w \in Competing :
        /\ (pc[w] = "lock") ~> (pc[w] = "respond" /\ resp[w] \in Answers)
        /\ (pc[w] = "respond") ~> (pc[w] = "recv" /\ resp[w] = "none")
        /\ [](resp[w] # "none" => (pc[w] = "respond" /\ resp[w] \in Answers))

\* The request of one connection has its response, an ErrorResponse, and
\* LOCK is free again for the request of another, which waited for it.
EveryRequestAnsweredWitness ==
    \E w, v \in Workers :
        /\ w # v
        /\ pc[w] = "respond" /\ resp[w] = "ErrorResponse"
        /\ pc[v] = "lock" /\ req[v].type = "SetMassStorage"
        /\ lock = 0

(***************************************************************************)
(* One command of the client against the service, end to end: the client   *)
(* writes the request, the worker reads and handles it and writes the      *)
(* response, the client reads the response and matches it against the      *)
(* command it ran.  The client may also have connected to a peer that is   *)
(* not this service and answers with any response.  `wire` holds, besides  *)
(* the exchange, the command and who answered it.                          *)
(***************************************************************************)
\* The requests the commands of the client send.
CommandRequests ==
    {Plain("GetFunctions"), Plain("GetMassStorage"),
     Message("SetMassStorage", <<>>, <<>>, <<>>),
     Message("SetMassStorage", <<>>, <<>>, <<Device("a.iso", TRUE, TRUE)>>),
     Message("SetMassStorage", <<>>, <<>>, <<Device("dir", FALSE, FALSE)>>)}

\* A response of each variant.
ResponseOfType(type) ==
    IF type = "ErrorResponse" THEN Message(type, Str(97, 1), <<>>, <<>>)
    ELSE IF type = "GetFunctionsResponse" THEN Message(type, <<>>, FunctionsOf(1, 1), <<>>)
    ELSE IF type = "GetMassStorageResponse"
         THEN Message(type, <<>>, <<>>, <<Device(Str(97, 1), TRUE, TRUE)>>)
    ELSE Plain(type)

ResponseTypes ==
    {"ErrorResponse", "GetFunctionsResponse", "SetMassStorageResponse",
     "GetMassStorageResponse"}

\* The client has connected and negotiated the version; the worker of the
\* connection waits for a request.
InitExchange ==
    /\ gadget \in {CleanGadget} \cup {LeftBehind(k) : k \in 1..MaxInitLuns}
    /\ fds = [n \in {} |-> "dir"]
    /\ lock = 0
    /\ pc = [w \in Workers |-> "recv"]
    /\ req = [w \in Workers |-> NoRequest]
    /\ loc = [w \in Workers |-> NoLocals]
    /\ resp = [w \in Workers |-> "none"]
    /\ halStopped = {}
    /\ trace = [w \in Workers |-> <<>>]
    /\ last = [result |-> "none", devices |-> <<>>]
    /\ stream = [w \in Workers |-> <<>>]
    /\ proc = Serving
    /\ wire = [pc |-> "request", ack |-> 1, msg |-> Nothing, sent |-> Wrote(<<>>),
               got |-> Read(Nothing, <<>>), command |-> "none", from |-> "none"]
    /\ policy = NoPolicy

\* subcommand_client: the request of the command, request.to_socket(&mut stream)?
ClientCommand ==
    /\ wire.pc = "request"
    /\ \E m \in CommandRequests :
         LET sent == Request_to_socket(m)
         IN  wire' = [wire EXCEPT !.pc = IF sent.ok THEN "sent" ELSE "failed",
                                  !.msg = m, !.sent = sent, !.command = m.type]
    /\ UNCHANGED wireVars

\* handle_client: Request::from_socket(&mut stream) on what the client wrote,
\* and the match on its result.
ServiceDispatch ==
    /\ wire.pc = "sent"
    /\ pc[1] = "recv"
    /\ LET got == Request_from_socket(wire.sent.bytes)
       IN  /\ wire' = [wire EXCEPT !.pc = IF got.ok THEN "handling" ELSE "failed",
                                   !.got = got]
           /\ IF ~got.ok
              THEN /\ pc' = [pc EXCEPT ![1] = "closed"]
                   /\ UNCHANGED <<gadget, fds, lock, req, loc, resp, halStopped, trace, last>>
              ELSE IF got.val.type = "SetMassStorage"
              THEN ReceiveRequest(1, {SetMassStorageRequest(got.val.devices)})
              ELSE /\ pc' = [pc EXCEPT ![1] =
                                IF got.val.type = "GetFunctions" THEN "get_functions"
                                ELSE "get_mass_storage"]
                   /\ req' = [req EXCEPT ![1] = [type |-> got.val.type, devices |-> <<>>]]
                   /\ UNCHANGED <<gadget, fds, lock, loc, resp, halStopped, trace, last>>
    /\ UNCHANGED <<stream, proc, policy>>

\* handle_client: response.to_socket(&mut stream)? with the response of
\* handle_request.
ServiceRespond ==
    /\ wire.pc = "handling"
    /\ pc[1] = "respond"
    /\ LET m == ResponseOfType(resp[1])
           sent == Response_to_socket(m)
       IN  /\ wire' = [wire EXCEPT !.pc = "responded", !.msg = m, !.sent = sent,
                                   !.from = "service"]
           /\ WriteResponse(1, IF sent.ok THEN "ok" ELSE "err")
    /\ UNCHANGED <<stream, proc, policy>>

\* The socket is that of a peer that is not this service: it answers the
\* request with a response of any variant.
PeerRespond ==
    /\ wire.pc = "sent"
    /\ \E type \in ResponseTypes :
         wire' = [wire EXCEPT !.pc = "responded", !.msg = ResponseOfType(type),
                              !.sent = Response_to_socket(ResponseOfType(type)),
                              !.from = "peer"]
    /\ UNCHANGED wireVars

\* A client that takes every response that is not an ErrorResponse for the
\* answer to its command.
client_match_any(command, response) ==
    IF response = "ErrorResponse" THEN "Error" ELSE "Ok"

\* subcommand_client: match response, in the arm of the command:
\* Response::Error(r) => bail!, the response of the command => Ok, and
\* r => bail!("Invalid response").
client_match(command, response) ==
    IF response = "ErrorResponse" THEN "Error"
    ELSE IF command = "GetFunctions" /\ response = "GetFunctionsResponse" THEN "Ok"
    ELSE IF command = "SetMassStorage" /\ response = "SetMassStorageResponse" THEN "Ok"
    ELSE IF command = "GetMassStorage" /\ response = "GetMassStorageResponse" THEN "Ok"
    ELSE "Invalid"

\* subcommand_client: the match on the response read; the client exits with
\* what the match gave.
ClientMatch ==
    /\ wire.pc = "done"
    /\ wire' = [wire EXCEPT !.pc = IF wire.got.ok
                                   THEN client_match(wire.command, wire.got.val.type)
                                   ELSE "Unread"]
    /\ UNCHANGED wireVars

NextExchange ==
    \/ ClientCommand
    \/ ServiceDispatch
    \/ GetFunctions(1)
    \/ GetMassStorage(1)
    \/ SetMassStorage(1, {1})
    \/ ServiceRespond
    \/ PeerRespond
    \/ ClientReceive
    \/ ClientMatch

SpecExchange == InitExchange /\ [][NextExchange]_vars

\* The response variant paired with each request variant.
Paired ==
    {<<"GetFunctions", "GetFunctionsResponse">>,
     <<"SetMassStorage", "SetMassStorageResponse">>,
     <<"GetMassStorage", "GetMassStorageResponse">>}

\* The client's match is done.
Matched == wire.pc \in {"Ok", "Error", "Invalid", "Unread"}

\* C40: the service answers a request with an ErrorResponse or with the
\* response variant paired with the request's, never another; the client
\* succeeds only on the variant paired with its command, and fails on an
\* ErrorResponse and on every other variant.
ResponsesPaired ==
    /\ \A w \in Workers :
         pc[w] = "respond" =>
            resp[w] = "ErrorResponse" \/ <<req[w].type, resp[w]>> \in Paired
    /\ wire.from = "service" =>
         /\ wire.msg.type = "ErrorResponse" \/ <<wire.command, wire.msg.type>> \in Paired
         /\ wire.sent.ok
         /\ wire.pc \notin {"Invalid", "Unread"}
    /\ Matched =>
         /\ wire.pc # "Unread"
         /\ wire.got.val = wire.msg
         /\ wire.pc = "Ok" <=> <<wire.command, wire.msg.type>> \in Paired
         /\ wire.pc = "Error" <=> wire.msg.type = "ErrorResponse"

\* The service answered GetFunctions with a GetFunctionsResponse, which the
\* client read and took for the answer to its command.
ResponsesPairedWitness ==
    /\ wire.command = "GetFunctions"
    /\ wire.from = "service"
    /\ wire.msg.type = "GetFunctionsResponse"
    /\ wire.pc = "Ok"

====
